---- MODULE Spec2Model ----
(***************************************************************************)
(* BASIC++ (IB) interpreter, src/ib.c: the line editor, the expression     *)
(* evaluator, the statement dispatcher and the execution loop.             *)
(*                                                                         *)
(* A C string is a sequence of one-character strings; a pointer into it is *)
(* a 1-based index, and the character read past the last one is NUL.       *)
(* program_storage holds the live prefix program_storage[0..line_count) of *)
(* the C array; C index i is element i+1 of the sequence.                  *)
(***************************************************************************)
EXTENDS Integers, Sequences, FiniteSets, TLC

VARIABLES
    program_storage,  \* the records program_storage[0 .. line_count-1]
    line_count,
    variables,        \* signed char variables[26], keyed "A".."Z"
    gosub_stack,      \* int gosub_stack[STACK_SIZE], keyed 0 .. STACK_SIZE-1
    stack_pointer,
    program_counter,
    is_running,
    files,            \* the file system: file name -> lines, or NoFile
    where,            \* where control is: "repl" (main's fgets) or "run" (top of run_program's loop)
    out,              \* what the latest step wrote to stdout / lprint.out
    last              \* the latest step: its kind, its input line and the state before it

vars == <<program_storage, line_count, variables, gosub_stack, stack_pointer,
          program_counter, is_running, files, where, out, last>>

----------------------------------------------------------------------------
(* Constants of the program *)

\* #define MAX_LINES 500
MAX_LINES == 500

\* #define MAX_LINE_LEN 127
MAX_LINE_LEN == 127

\* #define STACK_SIZE 64
STACK_SIZE == 64

\* #define COMMAND_MAX_LEN 32
COMMAND_MAX_LEN == 32

----------------------------------------------------------------------------
(* Characters and <ctype.h> *)

NUL == ""

Digits == <<"0", "1", "2", "3", "4", "5", "6", "7", "8", "9">>

UpperCase == <<"A", "B", "C", "D", "E", "F", "G", "H", "I", "J", "K", "L", "M",
               "N", "O", "P", "Q", "R", "S", "T", "U", "V", "W", "X", "Y", "Z">>

LowerCase == <<"a", "b", "c", "d", "e", "f", "g", "h", "i", "j", "k", "l", "m",
               "n", "o", "p", "q", "r", "s", "t", "u", "v", "w", "x", "y", "z">>

Letters == {UpperCase[i] : i \in 1..26}

SmallLetters == {LowerCase[i] : i \in 1..26}

Numerals == {Digits[i] : i \in 1..10}

isdigit(c) == c \in Numerals

isupper(c) == c \in Letters

islower(c) == c \in SmallLetters

isalpha(c) == isupper(c) \/ islower(c)

\* space, \t, \n, \f, \r (a line holds no \v in the model)
isspace(c) == c \in {" ", "\t", "\n", "\f", "\r"}

UpperOf == [c \in SmallLetters |-> UpperCase[CHOOSE i \in 1..26 : LowerCase[i] = c]]

\* toupper of a locale without lower-case letters
toupper_none(c) == c

toupper(c) == IF islower(c) THEN UpperOf[c] ELSE c

ValueOf == [c \in Numerals |-> (CHOOSE i \in 1..10 : Digits[i] = c) - 1]

DigitValue(c) == ValueOf[c]

\* *(s + p - 1): the character at 1-based position p, NUL at and past the terminator
At(s, p) == IF p \in 1..Len(s) THEN s[p] ELSE NUL

\* the C string that starts at position p of s
Tail_(s, p) == SubSeq(s, p, Len(s))

\* strncpy(dst, src, n) into a zeroed buffer: the first n characters of src
strncpy(src, n) == IF Len(src) <= n THEN src ELSE SubSeq(src, 1, n)

----------------------------------------------------------------------------
(* <stdlib.h>: strtol(s + p - 1, &end, 10) and atoi *)

RECURSIVE SkipSpace(_, _)
SkipSpace(s, p) == IF isspace(At(s, p)) THEN SkipSpace(s, p + 1) ELSE p

RECURSIVE SkipDigits(_, _)
SkipDigits(s, p) == IF isdigit(At(s, p)) THEN SkipDigits(s, p + 1) ELSE p

\* the base of the limbs that hold the magnitude of a long
Limb == 256 * 256

\* magnitude * 10 + d: four 16-bit limbs, least significant first, and .over
\* when the magnitude no longer fits 64 bits
Times10Plus(m, d) ==
    LET t1 == m.limbs[1] * 10 + d
        t2 == m.limbs[2] * 10 + (t1 \div Limb)
        t3 == m.limbs[3] * 10 + (t2 \div Limb)
        t4 == m.limbs[4] * 10 + (t3 \div Limb)
    IN  [limbs |-> <<t1 % Limb, t2 % Limb, t3 % Limb, t4 % Limb>>,
         over |-> m.over \/ t4 >= Limb]

RECURSIVE DigitsValue(_, _, _)
DigitsValue(s, p, acc) ==
    IF isdigit(At(s, p)) THEN DigitsValue(s, p + 1, Times10Plus(acc, DigitValue(s[p]))) ELSE acc

\* the low 32 bits hi:lo read as an int
IntOf(hi, lo) == IF hi >= Limb \div 2 THEN (hi - Limb) * Limb + lo ELSE hi * Limb + lo

\* -x in 32 bits
Negate32(x) == IF x = (0 - (Limb \div 2)) * Limb THEN x ELSE 0 - x

\* the long that strtol returns, as the int it is cast or truncated to: LONG_MAX
\* (low bits all 1) or LONG_MIN (low bits 0) when the digits are out of range
LongOf(negative, m) ==
    IF m.over \/ m.limbs[4] >= Limb \div 2
    THEN (IF negative THEN 0 ELSE -1)
    ELSE IF negative THEN Negate32(IntOf(m.limbs[2], m.limbs[1]))
    ELSE IntOf(m.limbs[2], m.limbs[1])

\* [value, end]: white space, an optional sign, decimal digits; end = p when
\* no digit was read.  value is the long reduced to the 32 bits of an int, which
\* is all that (int)value and (signed char)value look at
strtol_value(p, negative, d, e, magnitude) ==
    IF e = d THEN [value |-> 0, end |-> p]
    ELSE [value |-> LongOf(negative, magnitude), end |-> e]

strtol_digits(s, p, negative, d) ==
    strtol_value(p, negative, d, SkipDigits(s, d),
                 DigitsValue(s, d, [limbs |-> <<0, 0, 0, 0>>, over |-> FALSE]))

strtol_sign(s, p, q) ==
    strtol_digits(s, p, At(s, q) = "-", IF At(s, q) \in {"+", "-"} THEN q + 1 ELSE q)

strtol(s, p) == strtol_sign(s, p, SkipSpace(s, p))

\* atoi is (int)strtol(s, NULL, 10) in the C library
atoi(s) == strtol(s, 1).value

\* (signed char)x
SignedChar(x) == (((x % 256) + 128) % 256) - 128

\* a division that rounds toward minus infinity
FloorDiv(a, b) == IF b < 0 THEN (0 - a) \div (0 - b) ELSE a \div b

\* a / b of C (b # 0): the quotient truncated toward zero
CDiv(a, b) ==
    LET q == (IF a < 0 THEN 0 - a ELSE a) \div (IF b < 0 THEN 0 - b ELSE b)
    IN  IF (a < 0) = (b < 0) THEN q ELSE 0 - q

\* printf("%d", n)
RECURSIVE DecimalDigits(_)
DecimalDigits(n) ==
    IF n < 10 THEN <<Digits[n + 1]>>
    ELSE Append(DecimalDigits(n \div 10), Digits[(n % 10) + 1])

FormatInt(n) == IF n < 0 THEN <<"-">> \o DecimalDigits(0 - n) ELSE DecimalDigits(n)

----------------------------------------------------------------------------
(* The interpreter's globals as one record, threaded through the functions *)

\* one unit of output: k its kind ("PRINT", "LPRINT", "TEXT", "LIST", "OK",
\* "READY", "?", "BEEP", "FRAMEWORK" or "ERROR"), m the message of an ERROR,
\* n the number printed, t the text printed
Token(k, m, n, t) == [k |-> k, m |-> m, n |-> n, t |-> t]

Emit(e, k, n, t) == [e EXCEPT !.out = Append(@, Token(k, "", n, t))]

\* report_error: the message, and a running program (or direct statement) stops
report_error(e, message) ==
    [e EXCEPT !.out = Append(@, Token("ERROR", message, 0, <<>>)),
              !.is_running = FALSE]

\* skip_whitespace: spaces and tabs only
RECURSIVE SkipBlank(_, _)
SkipBlank(s, p) == IF At(s, p) \in {" ", "\t"} THEN SkipBlank(s, p + 1) ELSE p

skip_whitespace(e) == [e EXCEPT !.parser_ptr = SkipBlank(e.buf, e.parser_ptr)]

----------------------------------------------------------------------------
(* Program storage *)

Line(n, text) == [line_number |-> n, text |-> text]

\* the least element of a set of indices, or count when the set is empty: where
\* a for (i = 0; i < count; i++) loop ends that leaves at the first such index
FirstOf(hits, count) ==
    IF hits = {} THEN count ELSE CHOOSE i \in hits : \A j \in hits : i <= j

\* the place where find_line_index's scan returns: the first record whose line
\* number is equal or greater
scan_end(e, line_number) ==
    FirstOf({i \in 0..(e.line_count - 1) :
                 \/ e.program_storage[i + 1].line_number = line_number
                 \/ e.program_storage[i + 1].line_number > line_number},
            e.line_count)

\* the search, stopping at the first record whose number is not below
\* line_number without comparing for equality
find_line_index_loose(e, line_number, i) == IF i < e.line_count THEN i ELSE -1

find_line_index_at(e, line_number, i) ==
    IF i < e.line_count /\ e.program_storage[i + 1].line_number = line_number
    THEN i
    ELSE -1

\* the index of the record with this line number, or -1
find_line_index(e, line_number) ==
    find_line_index_at(e, line_number, scan_end(e, line_number))

\* a store_line that adds every new line at the end
insertion_point_at_end(e, line_number) == e.line_count

\* the insertion point of store_line: the first index whose line number is greater
insertion_point(e, line_number) ==
    FirstOf({i \in 0..(e.line_count - 1) : e.program_storage[i + 1].line_number > line_number},
            e.line_count)

\* a store_line that drops the last record, whichever line is deleted
delete_last(storage, index) == SubSeq(storage, 1, Len(storage) - 1)

\* program_storage[i] = program_storage[i + 1] for i = index .. line_count-2
delete_at(storage, index) ==
    SubSeq(storage, 1, index) \o SubSeq(storage, index + 2, Len(storage))

\* an insertion that writes slot i without moving the records behind it
insert_over(storage, i, rec) ==
    SubSeq(storage, 1, i) \o <<rec>> \o SubSeq(storage, i + 2, Len(storage))

\* program_storage[j] = program_storage[j - 1] for j = line_count .. i+1, then slot i
insert_at(storage, i, rec) ==
    SubSeq(storage, 1, i) \o <<rec>> \o SubSeq(storage, i + 1, Len(storage))

\* memset(text, 0, MAX_LINE_LEN); strncpy(text, text_part, MAX_LINE_LEN - 1)
stored_text(text_part) == strncpy(text_part, MAX_LINE_LEN - 1)

\* a store_line that looks at the room left before it looks for the line
store_line_full_first(e, line_number, text_part, index) ==
    IF At(text_part, 1) = NUL
    THEN IF index # -1
         THEN [e EXCEPT !.program_storage = delete_at(@, index),
                        !.line_count = @ - 1]
         ELSE e
    ELSE IF e.line_count >= MAX_LINES
    THEN report_error(e, "PROGRAM MEMORY FULL")
    ELSE IF index # -1
    THEN [e EXCEPT !.program_storage[index + 1].text = stored_text(text_part)]
    ELSE [e EXCEPT !.program_storage =
                       insert_at(@, insertion_point(e, line_number),
                                 Line(line_number, stored_text(text_part))),
                   !.line_count = @ + 1]

\* 4. delete, 5. replace and 6./7. insert, index being find_line_index's answer
store_line_at(e, line_number, text_part, index) ==
    IF At(text_part, 1) = NUL
    THEN IF index # -1
         THEN [e EXCEPT !.program_storage = delete_at(@, index),
                        !.line_count = @ - 1]
         ELSE e
    ELSE IF index # -1
    THEN [e EXCEPT !.program_storage[index + 1].text = stored_text(text_part)]
    ELSE IF e.line_count >= MAX_LINES
    THEN report_error(e, "PROGRAM MEMORY FULL")
    ELSE [e EXCEPT !.program_storage =
                       insert_at(@, insertion_point(e, line_number),
                                 Line(line_number, stored_text(text_part))),
                   !.line_count = @ + 1]

\* 2. the text taken to begin right after the digits, white space included
text_part_unskipped(line_str) == Tail_(line_str, SkipDigits(line_str, 1))

\* 2. Find where the actual text begins: after the digits at the start of
\* line_str and the white space that follows them
text_part(line_str) == Tail_(line_str, SkipSpace(line_str, SkipDigits(line_str, 1)))

\* 1. the line number is valid
store_line_number(e, line_str, line_number) ==
    IF line_number <= 0 \/ line_number > 65535
    THEN report_error(e, "INVALID LINE NUMBER")
    ELSE store_line_at(e, line_number, text_part(line_str), find_line_index(e, line_number))

\* store_line: insert, replace or delete the line that line_str names
store_line(e, line_str) == store_line_number(e, line_str, atoi(line_str))

\* new_program: NEW, and the start of main and of LOAD
new_program(e) ==
    [e EXCEPT !.program_storage = <<>>,
              !.line_count = 0,
              !.program_counter = 0,
              !.stack_pointer = 0,
              !.variables = [v \in Letters |-> 0],
              !.gosub_stack = [i \in 0..(STACK_SIZE - 1) |-> 0]]

\* "%d %s": one line of a listing
listing_line(rec) == FormatInt(rec.line_number) \o <<" ">> \o rec.text

listing(e) == [i \in 1..e.line_count |-> listing_line(e.program_storage[i])]

list_program(e) ==
    [e EXCEPT !.out = @ \o [i \in 1..e.line_count |-> Token("LIST", "", 0, listing_line(e.program_storage[i]))]]

----------------------------------------------------------------------------
(* Files: fopen, fgets, fprintf *)

NoFile == [exists |-> FALSE, lines |-> <<>>]

FileOf(lines) == [exists |-> TRUE, lines |-> lines]

\* fopen(filename, "r") succeeds
can_read(e, filename) == filename \in DOMAIN e.files /\ e.files[filename].exists

\* fopen(filename, "w") succeeds: the paths that can be created are DOMAIN files
can_write(e, filename) == filename \in DOMAIN e.files

\* line[strcspn(line, "\r\n")] = 0
\* hits being the positions from p on that hold "\r" or "\n"
strcspn_first(s, hits) ==
    IF hits = {} THEN Len(s) ELSE (CHOOSE q \in hits : \A r \in hits : q <= r) - 1

strcspn_crlf(s, p) == strcspn_first(s, {q \in p..Len(s) : s[q] \in {"\r", "\n"}})

chomp(s) == SubSeq(s, 1, strcspn_crlf(s, 1))

\* what successive fgets(buffer, size, f) calls return for one line of the file:
\* at most size-1 characters each, the line's "\n" counted
RECURSIVE fgets_chunks(_, _)
fgets_chunks(line, size) ==
    IF Len(line) + 1 <= size - 1 THEN <<line>>
    ELSE <<SubSeq(line, 1, size - 1)>> \o fgets_chunks(Tail_(line, size), size)

RECURSIVE fgets_all(_, _)
fgets_all(lines, size) ==
    IF lines = <<>> THEN <<>>
    ELSE fgets_chunks(Head(lines), size) \o fgets_all(Tail(lines), size)

save_program(e, filename) ==
    IF At(filename, 1) = NUL THEN report_error(e, "FILENAME REQUIRED")
    ELSE IF ~can_write(e, filename) THEN report_error(e, "CANNOT OPEN FILE")
    ELSE [e EXCEPT !.files[filename] = FileOf(listing(e))]

RECURSIVE load_lines(_, _)
load_lines(e, reads) ==
    IF reads = <<>> THEN e
    ELSE load_lines(store_line(e, chomp(Head(reads))), Tail(reads))

\* load_program without "1. Clear the old program"
load_program_merged(e, filename) ==
    IF At(filename, 1) = NUL THEN report_error(e, "FILENAME REQUIRED")
    ELSE IF ~can_read(e, filename) THEN report_error(e, "FILE NOT FOUND")
    ELSE load_lines(e, fgets_all(e.files[filename].lines, MAX_LINE_LEN + 20))

load_program(e, filename) ==
    IF At(filename, 1) = NUL THEN report_error(e, "FILENAME REQUIRED")
    ELSE IF ~can_read(e, filename) THEN report_error(e, "FILE NOT FOUND")
    ELSE load_lines(new_program(e), fgets_all(e.files[filename].lines, MAX_LINE_LEN + 20))

----------------------------------------------------------------------------
(* String literals of the program *)

S_PRINT == <<"P", "R", "I", "N", "T">>
S_LPRINT == <<"L", "P", "R", "I", "N", "T">>
S_LET == <<"L", "E", "T">>
S_INPUT == <<"I", "N", "P", "U", "T">>
S_GOTO == <<"G", "O", "T", "O">>
S_GOSUB == <<"G", "O", "S", "U", "B">>
S_RETURN == <<"R", "E", "T", "U", "R", "N">>
S_IF == <<"I", "F">>
S_THEN == <<"T", "H", "E", "N">>
S_REM == <<"R", "E", "M">>
S_END == <<"E", "N", "D">>
S_STOP == <<"S", "T", "O", "P">>
S_BEEP == <<"B", "E", "E", "P">>
S_RUN == <<"R", "U", "N">>
S_LIST == <<"L", "I", "S", "T">>
S_NEW == <<"N", "E", "W">>
S_SAVE == <<"S", "A", "V", "E">>
S_LOAD == <<"L", "O", "A", "D">>
S_SYSTEM == <<"S", "Y", "S", "T", "E", "M">>
S_QUIT == <<"Q", "U", "I", "T">>
S_EXIT == <<"E", "X", "I", "T">>
S_IMPORT == <<"$", "I", "M", "P", "O", "R", "T">>
S_INCLUDE == <<"$", "I", "N", "C", "L", "U", "D", "E">>
S_MERGE == <<"$", "M", "E", "R", "G", "E">>

----------------------------------------------------------------------------
(* Parser: parse_number, parse_term, parse_expression.  Each returns the   *)
(* record with .value set to the function's return value.                  *)

Return(e, v) == [e EXCEPT !.value = v]

Advance(e) == [e EXCEPT !.parser_ptr = @ + 1]

Peek(e) == At(e.buf, e.parser_ptr)

\* Check 1 and Check 2 of parse_number on strtol's answer r, then the cast
parse_number_check(s, r) ==
    IF r.end = s.parser_ptr
    THEN Return(report_error(s, "EXPECTED NUMBER"), 0)
    ELSE IF At(s.buf, r.end) # NUL /\ ~isspace(At(s.buf, r.end)) /\ At(s.buf, r.end) # ")"
    THEN Return(report_error(s, "INVALID NUMBER"), 0)
    ELSE Return([s EXCEPT !.parser_ptr = r.end], SignedChar(r.value))

parse_number_strtol(s) == parse_number_check(s, strtol(s.buf, s.parser_ptr))

parse_number(e) ==
    IF ~e.is_running THEN Return(e, 0) ELSE parse_number_strtol(skip_whitespace(e))

\* result = (signed char)(result op next_term), op one of + - * and / with next_term # 0
arithmetic(op, result, next_term) ==
    IF op = "+" THEN SignedChar(result + next_term)
    ELSE IF op = "-" THEN SignedChar(result - next_term)
    ELSE IF op = "*" THEN SignedChar(result * next_term)
    ELSE SignedChar(CDiv(result, next_term))

RECURSIVE parse_expression(_)
RECURSIVE parse_term(_)
RECURSIVE expression_loop(_, _)

\* 2. the sub-expression has been parsed: the ')' that closes it
parse_term_close(x) ==
    IF Peek(x) # ")"
    THEN Return(report_error(x, "EXPECTED ')'"), 0)
    ELSE Return(Advance(x), x.value)

\* 1. a variable, 2. a sub-expression, 3. a number
parse_term_at(s) ==
    IF isalpha(Peek(s))
    THEN Return(Advance(s), s.variables[toupper(Peek(s))])
    ELSE IF Peek(s) = "("
    THEN parse_term_close(skip_whitespace(parse_expression(Advance(s))))
    ELSE parse_number(s)

parse_term(e) ==
    IF ~e.is_running THEN Return(e, 0) ELSE parse_term_at(skip_whitespace(e))

\* an evaluator that applies the operator to all that follows it: right to left
expression_right(op, result, rest) ==
    IF op = "/" /\ rest.value = 0
    THEN Return(report_error(rest, "DIVISION BY ZERO"), 0)
    ELSE Return(rest, arithmetic(op, result, rest.value))

expression_apply_right(op, result, t) == expression_right(op, result, expression_loop(t, t.value))

\* 4. Perform the operation, without "if (next_term == 0)": the quotient is taken as 0
expression_apply_unchecked(op, result, t) ==
    expression_loop(t, IF op = "/" /\ t.value = 0 THEN 0 ELSE arithmetic(op, result, t.value))

\* 4. Perform the operation, t being the record after the next term was parsed
expression_apply(op, result, t) ==
    IF op = "/" /\ t.value = 0
    THEN Return(report_error(t, "DIVISION BY ZERO"), 0)
    ELSE expression_loop(t, arithmetic(op, result, t.value))

\* the operator is peeked at and consumed, 3. the next term is parsed
expression_operator(s, result) ==
    IF Peek(s) \notin {"+", "-", "*", "/"}
    THEN Return(s, result)
    ELSE expression_apply(Peek(s), result, parse_term(Advance(s)))

\* 2. the while (is_running) loop of parse_expression
expression_loop(e, result) ==
    IF ~e.is_running THEN Return(e, result) ELSE expression_operator(skip_whitespace(e), result)

expression_first(t) == expression_loop(t, t.value)

parse_expression(e) ==
    IF ~e.is_running THEN Return(e, 0) ELSE expression_first(parse_term(e))

----------------------------------------------------------------------------
(* Command handlers.  Called(e, name) notes in .trace that the handler ran. *)

Called(e, name) == [e EXCEPT !.trace = Append(@, name)]

\* strchr(s + p - 1, '"'): the position of the next quote, 0 when there is none
RECURSIVE strchr_quote(_, _)
strchr_quote(s, p) ==
    IF At(s, p) = NUL THEN 0
    ELSE IF s[p] = "\"" THEN p
    ELSE strchr_quote(s, p + 1)

\* the string literal: e is past the opening quote, str_end at the closing one
cmd_print_string(e, str_end) ==
    IF str_end = 0
    THEN report_error(e, "UNTERMINATED STRING")
    ELSE [Emit(e, "TEXT", 0, SubSeq(e.buf, e.parser_ptr, str_end - 1))
             EXCEPT !.parser_ptr = str_end + 1]

cmd_print_value(x) == IF x.is_running THEN Emit(x, "PRINT", x.value, <<>>) ELSE x

cmd_print_at(e) ==
    IF Peek(e) = "\"" THEN cmd_print_string(Advance(e), strchr_quote(e.buf, e.parser_ptr + 1))
    ELSE IF Peek(e) = NUL THEN Emit(e, "PRINT", 0, <<>>)
    ELSE cmd_print_value(parse_expression(e))

cmd_print(e) == cmd_print_at(skip_whitespace(Called(e, "PRINT")))

\* fopen("lprint.out", "a") is taken to succeed
cmd_lprint_value(x) == IF ~x.is_running THEN x ELSE Emit(x, "LPRINT", x.value, <<>>)

cmd_lprint_at(e) ==
    cmd_lprint_value(IF Peek(e) = NUL THEN Return(e, 0) ELSE parse_expression(e))

cmd_lprint(e) == cmd_lprint_at(Called(e, "LPRINT"))

\* the "? " prompt is out: fgets(input_buffer, 20, stdin) gives at most 19
\* characters of the line entered, or NULL at end of input
cmd_input_read(q, var_name) ==
    IF q.stdin.eof
    THEN [q EXCEPT !.is_running = FALSE]
    ELSE [q EXCEPT !.variables[var_name] =
             SignedChar(strtol(Head(fgets_chunks(q.stdin.line, 20)), 1).value)]

cmd_input_at(e) ==
    IF ~isalpha(Peek(e))
    THEN report_error(e, "EXPECTED VARIABLE FOR INPUT")
    ELSE cmd_input_read(Emit(e, "?", 0, <<>>), toupper(Peek(e)))

cmd_input(e) == cmd_input_at(skip_whitespace(Called(e, "INPUT")))

\* variables[var_name - 'A'] = parse_expression()
cmd_let_assign(x, var_name) == [x EXCEPT !.variables[var_name] = x.value]

cmd_let_equals(s, var_name) ==
    IF Peek(s) # "="
    THEN report_error(s, "EXPECTED '=' IN LET")
    ELSE cmd_let_assign(parse_expression(Advance(s)), var_name)

cmd_let_at(e) ==
    IF ~isalpha(Peek(e))
    THEN report_error(e, "EXPECTED VARIABLE FOR LET")
    ELSE cmd_let_equals(skip_whitespace(Advance(e)), toupper(Peek(e)))

cmd_let(e) == cmd_let_at(skip_whitespace(Called(e, "LET")))

\* the jump: index is find_line_index's answer for the number parsed
cmd_goto_jump(x, index) ==
    IF index = -1 THEN report_error(x, "LINE NOT FOUND")
    ELSE [x EXCEPT !.program_counter = index]

\* line_num = (int)parse_number(), the value that parse_number returned in x
cmd_goto_line(x) ==
    IF ~x.is_running THEN x ELSE cmd_goto_jump(x, find_line_index(x, x.value))

cmd_goto(e) == cmd_goto_line(parse_number(Called(e, "GOTO")))

\* 2. Push the next line index onto the stack
cmd_gosub_push(e) ==
    [e EXCEPT !.gosub_stack[e.stack_pointer] = e.program_counter + 1,
              !.stack_pointer = @ + 1]

\* a GOSUB that lets one entry too many in
cmd_gosub_late(e) ==
    IF e.stack_pointer > STACK_SIZE
    THEN report_error(e, "GOSUB STACK OVERFLOW")
    ELSE cmd_goto(cmd_gosub_push(e))

cmd_gosub_at(e) ==
    IF e.stack_pointer >= STACK_SIZE
    THEN report_error(e, "GOSUB STACK OVERFLOW")
    ELSE cmd_goto(cmd_gosub_push(e))

cmd_gosub(e) == cmd_gosub_at(Called(e, "GOSUB"))

\* a RETURN that reads the top entry and leaves it on the stack
cmd_return_peek(e) == [e EXCEPT !.program_counter = e.gosub_stack[e.stack_pointer - 1]]

\* 2. Pop the return address
cmd_return_pop(e) ==
    [e EXCEPT !.stack_pointer = @ - 1,
              !.program_counter = e.gosub_stack[e.stack_pointer - 1]]

\* RETURN that takes an empty stack for the end of the program
cmd_return_silent(e) ==
    IF e.stack_pointer <= 0
    THEN [e EXCEPT !.is_running = FALSE]
    ELSE cmd_return_pop(e)

cmd_return_at(e) ==
    IF e.stack_pointer <= 0
    THEN report_error(e, "RETURN WITHOUT GOSUB")
    ELSE cmd_return_pop(e)

cmd_return(e) == cmd_return_at(Called(e, "RETURN"))

cmd_rem(e) == Called(e, "REM")

\* END that leaves the running flag alone
cmd_end_running(e) == Called(e, "END")

cmd_end(e) == [Called(e, "END") EXCEPT !.is_running = FALSE]

cmd_beep(e) == Emit(Called(e, "BEEP"), "BEEP", 0, <<>>)

cmd_stub(e, command) == Emit(Called(e, "STUB"), "FRAMEWORK", 0, command)

cmd_system(e) == cmd_stub(e, S_SYSTEM)

\* exit(0): the process ends
cmd_quit(e) == [Called(e, "QUIT") EXCEPT !.is_running = FALSE, !.exited = TRUE]

cmd_exit(e) == cmd_quit(e)

\* ib_stricmp(s + p - 1, keyword) = 0: the keyword, then NUL or white space
ib_stricmp_eq(s, p, keyword) ==
    /\ \A i \in 1..Len(keyword) : toupper(At(s, p + i - 1)) = toupper(keyword[i])
    /\ (At(s, p + Len(keyword)) = NUL \/ isspace(At(s, p + Len(keyword))))

\* 4. Evaluate the condition, with "<" read as "<="
condition_or_equal(op, val1, val2) ==
    IF op = "=" THEN val1 = val2
    ELSE IF op = "<>" THEN val1 # val2
    ELSE IF op = "<" THEN val1 <= val2
    ELSE val1 > val2

\* 4. Evaluate the condition: op is "=", "<>", "<" or ">"
condition(op, val1, val2) ==
    IF op = "=" THEN val1 = val2
    ELSE IF op = "<>" THEN val1 # val2
    ELSE IF op = "<" THEN val1 < val2
    ELSE val1 > val2

\* run_program without "memset(variables, 0, sizeof(variables))"
run_program_init_kept(e) ==
    [e EXCEPT !.is_running = TRUE,
              !.program_counter = 0,
              !.stack_pointer = 0,
              !.run_called = TRUE]

\* 1. Initialize the "CPU"; the loop of run_program is the actions RunStep and RunExit
run_program_init(e) ==
    [e EXCEPT !.is_running = TRUE,
              !.program_counter = 0,
              !.stack_pointer = 0,
              !.variables = [v \in Letters |-> 0],
              !.run_called = TRUE]

\* the command token: up to COMMAND_MAX_LEN - 1 characters, upper-cased
RECURSIVE read_command(_, _, _)
read_command(s, p, command) ==
    IF At(s, p) # NUL /\ ~isspace(At(s, p)) /\ Len(command) < COMMAND_MAX_LEN - 1
    THEN read_command(s, p + 1, Append(command, toupper(s[p])))
    ELSE [command |-> command, ptr |-> p]

RECURSIVE execute_statement(_)

\* 6. Execute if true, without the test for a line number after THEN
cmd_if_execute_statement(holds, g) ==
    IF ~holds THEN g
    ELSE execute_statement(g)

\* 6. Execute, whatever the condition
cmd_if_execute_always(holds, g) ==
    IF isdigit(Peek(g)) THEN cmd_goto(g)
    ELSE execute_statement(g)

\* 6. Execute if true: g is past THEN and the white space after it
cmd_if_execute(holds, g) ==
    IF ~holds THEN g
    ELSE IF isdigit(Peek(g)) THEN cmd_goto(g)
    ELSE execute_statement(g)

\* 5. Find the "THEN" keyword
cmd_if_then(holds, f) ==
    IF ~ib_stricmp_eq(f.buf, f.parser_ptr, S_THEN)
    THEN report_error(f, "EXPECTED 'THEN' IN IF")
    ELSE cmd_if_execute(holds, skip_whitespace([f EXCEPT !.parser_ptr = @ + 4]))

\* 3. the second expression has been parsed
cmd_if_compare(op, val1, d) ==
    IF ~d.is_running THEN d
    ELSE cmd_if_then(condition(op, val1, d.value), skip_whitespace(d))

\* 2. Parse the operator
relational_operator(b) ==
    IF Peek(b) = "=" THEN "="
    ELSE IF Peek(b) = "<" THEN (IF At(b.buf, b.parser_ptr + 1) = ">" THEN "<>" ELSE "<")
    ELSE IF Peek(b) = ">" THEN ">"
    ELSE ""

cmd_if_operator(val1, b, op) ==
    IF op = "" THEN report_error(b, "EXPECTED OPERATOR IN IF")
    ELSE cmd_if_compare(op, val1,
                        parse_expression([b EXCEPT !.parser_ptr = @ + (IF op = "<>" THEN 2 ELSE 1)]))

cmd_if_lhs(b) == cmd_if_operator(b.value, b, relational_operator(b))

\* 1. the first expression has been parsed
cmd_if_first(a) == IF ~a.is_running THEN a ELSE cmd_if_lhs(skip_whitespace(a))

cmd_if(e) == cmd_if_first(parse_expression(Called(e, "IF")))

\* the guard of RUN, LIST, NEW, SAVE and LOAD
in_program(a) == a.is_running /\ a.program_counter > 0

\* the dispatch table
dispatch(command, a) ==
    IF command = <<>> THEN a
    ELSE IF command = S_PRINT THEN cmd_print(a)
    ELSE IF command = S_LPRINT THEN cmd_lprint(a)
    ELSE IF command = S_LET THEN cmd_let(a)
    ELSE IF command = S_INPUT THEN cmd_input(a)
    ELSE IF command = S_GOTO THEN cmd_goto(a)
    ELSE IF command = S_GOSUB THEN cmd_gosub(a)
    ELSE IF command = S_RETURN THEN cmd_return(a)
    ELSE IF command = S_IF THEN cmd_if(a)
    ELSE IF command = S_REM THEN cmd_rem(a)
    ELSE IF command = S_END THEN cmd_end(a)
    ELSE IF command = S_STOP THEN cmd_end(a)
    ELSE IF command = S_BEEP THEN cmd_beep(a)
    ELSE IF command = S_RUN
    THEN IF in_program(a) THEN report_error(a, "CAN'T USE RUN IN A PROGRAM")
         ELSE run_program_init(Called(a, "RUN"))
    ELSE IF command = S_LIST
    THEN IF in_program(a) THEN report_error(a, "CAN'T USE LIST IN A PROGRAM")
         ELSE list_program(Called(a, "LIST"))
    ELSE IF command = S_NEW
    THEN IF in_program(a) THEN report_error(a, "CAN'T USE NEW IN A PROGRAM")
         ELSE new_program(Called(a, "NEW"))
    ELSE IF command = S_SAVE
    THEN IF in_program(a) THEN report_error(a, "CAN'T USE SAVE IN A PROGRAM")
         ELSE save_program(Called(a, "SAVE"), Tail_(a.buf, a.parser_ptr))
    ELSE IF command = S_LOAD
    THEN IF in_program(a) THEN report_error(a, "CAN'T USE LOAD IN A PROGRAM")
         ELSE load_program(Called(a, "LOAD"), Tail_(a.buf, a.parser_ptr))
    ELSE IF command = S_SYSTEM THEN cmd_system(a)
    ELSE IF command = S_QUIT THEN cmd_quit(a)
    ELSE IF command = S_EXIT THEN cmd_exit(a)
    ELSE IF command = S_IMPORT THEN cmd_stub(a, S_IMPORT)
    ELSE IF command = S_INCLUDE THEN cmd_stub(a, S_INCLUDE)
    ELSE IF command = S_MERGE THEN cmd_stub(a, S_MERGE)
    ELSE report_error(a, "UNKNOWN COMMAND")

\* 1. the command token, 2. the white space after it
execute_token(s, token) ==
    dispatch(token.command, skip_whitespace([s EXCEPT !.parser_ptr = token.ptr]))

execute_command(s) == execute_token(s, read_command(s.buf, s.parser_ptr, <<>>))

execute_statement(e) ==
    IF ~e.is_running THEN e ELSE execute_command(skip_whitespace(e))

----------------------------------------------------------------------------
(* The REPL of main and the loop of run_program, as steps *)

EndOfFile == [eof |-> TRUE, line |-> <<>>]

Entered(line) == [eof |-> FALSE, line |-> line]

\* the globals before a step
Globals ==
    [program_storage |-> program_storage, line_count |-> line_count,
     variables |-> variables, gosub_stack |-> gosub_stack,
     stack_pointer |-> stack_pointer, program_counter |-> program_counter,
     is_running |-> is_running, files |-> files]

\* the globals, the line buffer with parser_ptr at its start, and what stdin
\* holds for an INPUT statement
Env(buf, stdin) ==
    [program_storage |-> program_storage, line_count |-> line_count,
     variables |-> variables, gosub_stack |-> gosub_stack,
     stack_pointer |-> stack_pointer, program_counter |-> program_counter,
     is_running |-> is_running, files |-> files,
     buf |-> buf, parser_ptr |-> 1, value |-> 0, stdin |-> stdin,
     out |-> <<>>, trace |-> <<>>, run_called |-> FALSE, exited |-> FALSE]

Commit(e) ==
    /\ program_storage' = e.program_storage
    /\ line_count' = e.line_count
    /\ variables' = e.variables
    /\ gosub_stack' = e.gosub_stack
    /\ stack_pointer' = e.stack_pointer
    /\ program_counter' = e.program_counter
    /\ is_running' = e.is_running
    /\ files' = e.files
    /\ out' = e.out

Step(op, line, e) ==
    [op |-> op, line |-> line, pre |-> Globals, trace |-> e.trace]

\* the first character of the line after skip_whitespace
FirstChar(line) == At(line, SkipBlank(line, 1))

\* fgets(input_buffer, MAX_LINE_LEN + 20, stdin) takes the whole line
Fits(line) == Len(line) + 1 <= MAX_LINE_LEN + 20 - 1

\* printf("OK\n"); printf("READY\n") with is_running cleared
Ready(e) == Emit(Emit([e EXCEPT !.is_running = FALSE], "OK", 0, <<>>), "READY", 0, <<>>)

Stored(line, e) ==
    /\ Commit(e)
    /\ last' = Step("store", line, e)
    /\ UNCHANGED where

\* main, 1. STORED LINE: the line starts with a digit
EnterStoredLine(line) ==
    /\ where = "repl"
    /\ Fits(line)
    /\ isdigit(FirstChar(line))
    /\ Stored(line, store_line(Env(line, EndOfFile), line))

\* e is what execute_statement left: exit(0) ends the process, RUN enters the
\* loop of run_program, anything else comes back to main
Executed(line, e) ==
    /\ Commit(IF e.exited \/ e.run_called THEN e ELSE Ready(e))
    /\ where' = IF e.exited THEN "exited" ELSE IF e.run_called THEN "run" ELSE "repl"
    /\ last' = Step("direct", line, e)

\* main, 2. DIRECT MODE: execute_statement on a copy of the line, then OK and READY
EnterDirect(line, stdin) ==
    /\ where = "repl"
    /\ Fits(line)
    /\ ~isdigit(FirstChar(line))
    /\ FirstChar(line) # NUL
    /\ Executed(line, execute_statement([Env(line, stdin) EXCEPT !.is_running = TRUE]))

\* main, 3. BLANK LINE
EnterBlank(line) ==
    /\ where = "repl"
    /\ Fits(line)
    /\ FirstChar(line) = NUL
    /\ Commit(Emit(Env(line, EndOfFile), "READY", 0, <<>>))
    /\ last' = Step("blank", line, Env(line, EndOfFile))
    /\ UNCHANGED where

\* the line buffer of run_program: strncpy(line_buffer, text, MAX_LINE_LEN), then
\* line_buffer[MAX_LINE_LEN - 1] = 0
line_buffer(text) == strncpy(text, MAX_LINE_LEN - 1)

\* 3. Advance the Program Counter, without looking at is_running
advance_always(e, current_line_index) ==
    IF e.program_counter = current_line_index
    THEN [e EXCEPT !.program_counter = @ + 1]
    ELSE e

\* 3. Advance the Program Counter
advance(e, current_line_index) ==
    IF e.is_running /\ e.program_counter = current_line_index
    THEN [e EXCEPT !.program_counter = @ + 1]
    ELSE e

Stepped(text, e, current_line_index) ==
    /\ Commit(IF e.exited \/ e.run_called THEN e ELSE advance(e, current_line_index))
    /\ where' = IF e.exited THEN "exited" ELSE "run"
    /\ last' = Step("step", text, e)

\* one pass of run_program's loop: the statement at program_counter, then step 3
RunStep(stdin) ==
    /\ where = "run"
    /\ is_running /\ program_counter < line_count
    /\ Stepped(program_storage[program_counter + 1].text,
               execute_statement(Env(line_buffer(program_storage[program_counter + 1].text), stdin)),
               program_counter)

\* the loop of run_program ends: 4. Program finished, and back in main OK and READY
RunExit ==
    /\ where = "run"
    /\ ~(is_running /\ program_counter < line_count)
    /\ Commit(Ready(Env(<<>>, EndOfFile)))
    /\ last' = Step("exit", <<>>, Env(<<>>, EndOfFile))
    /\ where' = "repl"

----------------------------------------------------------------------------
(* Specification Spec: the line editor at the REPL, with NEW, LIST and LOAD *)

\* "<n> <text>" as typed
Typed(n, text) == FormatInt(n) \o <<" ">> \o text

\* the globals after main's new_program()
Fresh(directory) ==
    [program_storage |-> <<>>, line_count |-> 0,
     variables |-> [v \in Letters |-> 0],
     gosub_stack |-> [i \in 0..(STACK_SIZE - 1) |-> 0],
     stack_pointer |-> 0, program_counter |-> 0,
     is_running |-> FALSE, files |-> directory,
     buf |-> <<>>, parser_ptr |-> 1, value |-> 0, stdin |-> EndOfFile,
     out |-> <<>>, trace |-> <<>>, run_called |-> FALSE, exited |-> FALSE]

\* main has printed READY and waits in fgets, the globals being those of e
Started(e) ==
    /\ program_storage = e.program_storage
    /\ line_count = e.line_count
    /\ variables = e.variables
    /\ gosub_stack = e.gosub_stack
    /\ stack_pointer = e.stack_pointer
    /\ program_counter = e.program_counter
    /\ is_running = e.is_running
    /\ files = e.files
    /\ where = "repl"
    /\ out = <<Token("READY", "", 0, <<>>)>>
    /\ last = [op |-> "init", line |-> <<>>, pre |-> Globals, trace |-> <<>>]

\* how many lines short of MAX_LINES the nearly full store of Init is
Headroom == 2

\* the store after 1001 R, 1002 R, ... 1000+k R were typed into the fresh interpreter
Filled(e, k) ==
    [e EXCEPT !.program_storage = [i \in 1..k |-> Line(1000 + i, <<"R">>)],
              !.line_count = k]

LongText == [i \in 1..130 |-> "X"]

EditNumbers == {10, 20, 30}

EditTexts == {S_REM, S_END}

F_g == <<"g">>

F_missing == <<"h">>

\* a file written outside the interpreter: unsorted, a repeated number, a
\* number out of range, an empty line, CR LF line ends
ForeignFile ==
    FileOf(<<Typed(30, S_END), Typed(10, S_REM) \o <<"\r">>, Typed(30, S_REM),
             Typed(0, S_REM), <<>>, Typed(20, S_BEEP)>>)

EditDirectory == (F_g :> ForeignFile) @@ (F_missing :> NoFile)

\* "4294967306 REM": a line number that does not fit an int
L_Wide == <<"4", "2", "9", "4", "9", "6", "7", "3", "0", "6", " ">> \o S_REM

EditInputs ==
    {Typed(n, t) : n \in EditNumbers, t \in EditTexts}
        \cup {FormatInt(n) : n \in EditNumbers}
        \cup {Typed(30, LongText), <<" ">> \o FormatInt(20), Typed(0, S_REM), Typed(65536, S_REM),
              L_Wide}
        \cup {S_NEW, S_LOAD \o <<" ">> \o F_g, S_LOAD \o <<" ">> \o F_missing, S_LOAD}
        \cup {<<>>, <<" ", "\t">>}

Init ==
    \E k \in {0, MAX_LINES - Headroom} :
        Started(Filled(Fresh(EditDirectory), k))

Next ==
    \E line \in EditInputs :
        \/ EnterStoredLine(line)
        \/ EnterDirect(line, EndOfFile)
        \/ EnterBlank(line)

Spec == Init /\ [][Next]_vars

----------------------------------------------------------------------------
(* Properties of the line editor, checked under Spec.  last.pre holds the   *)
(* globals before the latest step, the variables hold them after it.        *)

\* the line numbers held by a store
Numbers(storage) == {storage[i].line_number : i \in 1..Len(storage)}

\* the text stored under line number n
TextOf(storage, n) ==
    storage[CHOOSE i \in 1..Len(storage) : storage[i].line_number = n].text

\* the first MAX_LINE_LEN - 1 characters of a text
Kept(text) == [i \in 1..(IF Len(text) < MAX_LINE_LEN - 1 THEN Len(text) ELSE MAX_LINE_LEN - 1) |-> text[i]]

\* the latest step was store_line on "<n> <text>", or on "<n>" when text is empty
Edited(n, text) ==
    /\ last.op = "store"
    /\ last.line = (IF text = <<>> THEN FormatInt(n) ELSE Typed(n, text))

Reported(message) == \E i \in 1..Len(out) : out[i] = Token("ERROR", message, 0, <<>>)

\* C1: whatever was typed, NEWed or LOADed so far, the records of the store are
\* strictly ascending by line number and 0 <= line_count <= MAX_LINES
C1_StoreSorted ==
    /\ line_count \in 0..MAX_LINES
    /\ Len(program_storage) = line_count
    /\ \A i \in 1..(line_count - 1) :
           program_storage[i].line_number < program_storage[i + 1].line_number

\* line 20 was inserted between lines 10 and 1001, the store then being full
C1_InsertedInTheMiddle ==
    /\ Edited(20, S_REM)
    /\ last.pre.line_count = MAX_LINES - 1
    /\ line_count = MAX_LINES
    /\ program_storage[1].line_number = 10
    /\ program_storage[2].line_number = 20
    /\ program_storage[3].line_number = 1001

\* the four cases of store_line on line number n: what the store is afterwards,
\* room saying whether a new line may be added and stored being the text kept
Upsert(n, text, room, stored) ==
    IF text # <<>> /\ n \notin Numbers(last.pre.program_storage)
    THEN IF room
         THEN /\ Numbers(program_storage) = Numbers(last.pre.program_storage) \cup {n}
              /\ TextOf(program_storage, n) = stored
              /\ line_count = last.pre.line_count + 1
         ELSE /\ Reported("PROGRAM MEMORY FULL")
              /\ program_storage = last.pre.program_storage
              /\ line_count = last.pre.line_count
    ELSE IF text # <<>>
    THEN /\ Numbers(program_storage) = Numbers(last.pre.program_storage)
         /\ TextOf(program_storage, n) = stored
         /\ line_count = last.pre.line_count
    ELSE IF n \in Numbers(last.pre.program_storage)
    THEN /\ Numbers(program_storage) = Numbers(last.pre.program_storage) \ {n}
         /\ line_count = last.pre.line_count - 1
    ELSE /\ program_storage = last.pre.program_storage
         /\ line_count = last.pre.line_count

\* C2 (amended): store_line with a valid line number n, text being what it finds
\* after the number, is an upsert of the text cut to MAX_LINE_LEN - 1 characters:
\* absent n with text is inserted and the count grows by 1 when fewer than
\* MAX_LINES records are held, and otherwise PROGRAM MEMORY FULL is reported and
\* nothing changes; present n with text has its text replaced; present n without
\* text is removed and the count shrinks by 1; absent n without text changes
\* nothing
C2_Upsert ==
    (last.op = "store" /\ atoi(last.line) \in 1..65535) =>
        Upsert(atoi(last.line), text_part(last.line), last.pre.line_count < MAX_LINES,
               Kept(text_part(last.line)))

\* line 30 was replaced by a text longer than a record holds
C2_ReplacedByLongText ==
    /\ Edited(30, LongText)
    /\ 30 \in Numbers(last.pre.program_storage)
    /\ Len(TextOf(program_storage, 30)) = MAX_LINE_LEN - 1

\* C2 as stated: absent n with text is always inserted, and with the text as given
C2_UpsertAsStated ==
    (last.op = "store" /\ atoi(last.line) \in 1..65535) =>
        Upsert(atoi(last.line), text_part(last.line), TRUE, text_part(last.line))

----------------------------------------------------------------------------
(* Specification SpecArith: PRINT A op B in direct mode, for every pair of   *)
(* values that the variables A and B can hold                                *)

\* the values of a signed char
Bytes == -128..127

Operators == {"+", "-", "*", "/"}

\* "PRINT A<op>B"
ArithLine(op) == S_PRINT \o <<" ", "A", op, "B">>

\* the interpreter after LET A = a and LET B = b
Assigned(e, a, b) == [e EXCEPT !.variables["A"] = a, !.variables["B"] = b]

InitArith ==
    \E a \in Bytes, b \in Bytes : Started(Assigned(Fresh(EditDirectory), a, b))

NextArith == \E op \in Operators : EnterDirect(ArithLine(op), EndOfFile)

SpecArith == InitArith /\ [][NextArith]_vars

\* x mod 256 read as a two's-complement signed byte
Wrap8(x) == IF x % 256 >= 128 THEN (x % 256) - 256 ELSE x % 256

Abs(x) == IF x < 0 THEN 0 - x ELSE x

\* the quotient a / b truncated toward zero: the one integer q with
\* |q| * |b| <= |a| < (|q| + 1) * |b| that has the sign of a / b, or is 0
Truncated(a, b) ==
    CHOOSE q \in -128..128 :
        /\ Abs(q) * Abs(b) <= Abs(a)
        /\ Abs(a) < (Abs(q) + 1) * Abs(b)
        /\ (q > 0 => (a < 0) = (b < 0))
        /\ (q < 0 => (a < 0) # (b < 0))

Exact(op, a, b) ==
    IF op = "+" THEN a + b
    ELSE IF op = "-" THEN a - b
    ELSE IF op = "*" THEN a * b
    ELSE Truncated(a, b)

Printed(n) == Token("PRINT", "", n, <<>>)

\* the latest step was the direct-mode statement line
Direct(line) == last.op = "direct" /\ last.line = line

\* C3: for all signed bytes A and B, PRINT A+B, A-B and A*B print the exact
\* result mod 256 read as a signed byte, and PRINT A/B with B # 0 prints the
\* quotient truncated toward zero, cast to 8 bits
C3_WrapAround ==
    \A op \in Operators :
        (Direct(ArithLine(op)) /\ ~(op = "/" /\ variables["B"] = 0))
            => out[1] = Printed(Wrap8(Exact(op, variables["A"], variables["B"])))

\* -128 / -1 was printed: the one quotient that does not fit 8 bits
C3_QuotientWrapped ==
    /\ Direct(ArithLine("/"))
    /\ variables["A"] = -128
    /\ variables["B"] = -1
    /\ out[1] = Printed(-128)

----------------------------------------------------------------------------
(* Specification SpecExpr: PRINT of expressions with two operators, over    *)
(* variables and over literals, in direct mode                              *)

ExprValues == {-128, -7, -1, 0, 2, 3, 100, 127}

\* "PRINT A <op1> B <op2> C"
ExprLine(op1, op2) == S_PRINT \o <<" ", "A", " ", op1, " ", "B", " ", op2, " ", "C">>

\* "PRINT A <op1> (B <op2> C)"
ParenLine(op1, op2) ==
    S_PRINT \o <<" ", "A", " ", op1, " ", "(", "B", " ", op2, " ", "C", ")">>

\* "PRINT 3 + 4 * 5"
L_Spaced == S_PRINT \o <<" ", "3", " ", "+", " ", "4", " ", "*", " ", "5">>

\* "PRINT 3 + (4 * 5)"
L_SpacedParen == S_PRINT \o <<" ", "3", " ", "+", " ", "(", "4", " ", "*", " ", "5", ")">>

\* "PRINT 3+4*5"
L_Tight == S_PRINT \o <<" ", "3", "+", "4", "*", "5">>

\* "PRINT 3+(4*5)"
L_TightParen == S_PRINT \o <<" ", "3", "+", "(", "4", "*", "5", ")">>

\* "PRINT 127+1"
L_Wrap == S_PRINT \o <<" ", "1", "2", "7", "+", "1">>

\* "PRINT 7/3"
L_Quotient == S_PRINT \o <<" ", "7", "/", "3">>

\* "PRINT 10/0"
L_ByZero == S_PRINT \o <<" ", "1", "0", "/", "0">>

\* "PRINT 12A"
L_Letter == S_PRINT \o <<" ", "1", "2", "A">>

\* "PRINT 3 +4": the operator is directly followed by the literal
L_After == S_PRINT \o <<" ", "3", " ", "+", "4">>

LiteralLines ==
    {L_Spaced, L_SpacedParen, L_Tight, L_TightParen, L_Wrap, L_Quotient, L_ByZero,
     L_Letter, L_After}

ExprInputs ==
    {ExprLine(op1, op2) : op1 \in Operators, op2 \in Operators}
        \cup {ParenLine(op1, op2) : op1 \in Operators, op2 \in Operators}
        \cup LiteralLines

\* the interpreter after LET A = a, LET B = b and LET C = c
Assigned3(e, a, b, c) ==
    [e EXCEPT !.variables["A"] = a, !.variables["B"] = b, !.variables["C"] = c]

InitExpr ==
    \E a \in ExprValues, b \in ExprValues, c \in ExprValues :
        Started(Assigned3(Fresh(EditDirectory), a, b, c))

NextExpr == \E line \in ExprInputs : EnterDirect(line, EndOfFile)

SpecExpr == InitExpr /\ [][NextExpr]_vars

\* l op r is defined: no division by zero
Defined(op, r) == ~(op = "/" /\ r = 0)

\* wrap8(l op r)
Apply8(op, l, r) == Wrap8(Exact(op, l, r))

\* C4: with no precedence, A op1 B op2 C is wrap8(wrap8(A op1 B) op2 C), and a
\* parenthesised sub-expression is evaluated first, as one term:
\* A op1 (B op2 C) is wrap8(A op1 wrap8(B op2 C)); 3 + 4 * 5 is 35 and
\* 3 + (4 * 5) is 23
C4_LeftToRight ==
    /\ \A op1 \in Operators, op2 \in Operators :
           /\ (/\ Direct(ExprLine(op1, op2))
               /\ Defined(op1, variables["B"])
               /\ Defined(op2, variables["C"]))
                  => out[1] = Printed(Apply8(op2, Apply8(op1, variables["A"], variables["B"]),
                                             variables["C"]))
           /\ (/\ Direct(ParenLine(op1, op2))
               /\ Defined(op2, variables["C"])
               /\ Defined(op1, Apply8(op2, variables["B"], variables["C"])))
                  => out[1] = Printed(Apply8(op1, variables["A"],
                                             Apply8(op2, variables["B"], variables["C"])))
    /\ Direct(L_Spaced) => out[1] = Printed(35)
    /\ Direct(L_SpacedParen) => out[1] = Printed(23)

\* 100 + 100 * 2 was printed as -112: the sum wrapped to -56 before the product
C4_WrappedThenMultiplied ==
    /\ Direct(ExprLine("+", "*"))
    /\ variables["A"] = 100
    /\ variables["B"] = 100
    /\ variables["C"] = 2
    /\ out[1] = Printed(-112)

\* C5: a literal directly followed by an operator is a complete term: PRINT 3+4*5,
\* PRINT 3+(4*5), PRINT 127+1 and PRINT 7/3 print 35, 23, -128 and 2, PRINT 10/0
\* reports DIVISION BY ZERO, and of the literal lines only the one whose digits
\* are directly followed by a letter reports INVALID NUMBER
C5_LiteralThenOperator ==
    /\ Direct(L_Tight) => out[1] = Printed(35)
    /\ Direct(L_TightParen) => out[1] = Printed(23)
    /\ Direct(L_Wrap) => out[1] = Printed(-128)
    /\ Direct(L_Quotient) => out[1] = Printed(2)
    /\ Direct(L_ByZero) => Reported("DIVISION BY ZERO")
    /\ \A line \in LiteralLines :
           (Direct(line) /\ Reported("INVALID NUMBER")) => line = L_Letter

----------------------------------------------------------------------------
(* Specification SpecRun: RUN of stored programs that branch and call, and  *)
(* branches entered in direct mode                                          *)

\* "GOTO <n>"
Goto(n) == S_GOTO \o <<" ">> \o FormatInt(n)

\* "GOSUB <n>"
Gosub(n) == S_GOSUB \o <<" ">> \o FormatInt(n)

\* "IF 1 = 1 THEN <n>"
IfThen(n) == S_IF \o <<" ", "1", " ", "=", " ", "1", " ">> \o S_THEN \o <<" ">> \o FormatInt(n)

\* "PRINT <n>"
PrintOf(n) == S_PRINT \o <<" ">> \o FormatInt(n)

\* the store after the lines of listing (each <<n, text>>, ascending) were typed
Program(lines) == [i \in 1..Len(lines) |-> Line(lines[i][1], stored_text(lines[i][2]))]

Holding(e, storage) == [e EXCEPT !.program_storage = storage, !.line_count = Len(storage)]

\* 10 GOSUB 20 / 20 GOTO 10: calls without end
P_Calls == Program(<<<<10, Gosub(20)>>, <<20, Goto(10)>>>>)

\* 10 GOTO 10 / 20 PRINT 1
P_Self == Program(<<<<10, Goto(10)>>, <<20, PrintOf(1)>>>>)

\* 10 IF 1 = 1 THEN 10 / 20 PRINT 1
P_SelfIf == Program(<<<<10, IfThen(10)>>, <<20, PrintOf(1)>>>>)

\* 10 GOSUB 10 / 20 PRINT 1
P_SelfCall == Program(<<<<10, Gosub(10)>>, <<20, PrintOf(1)>>>>)

\* 10 GOTO 200 / 44 PRINT 44 / 200 PRINT 2 / 300 PRINT 3
P_Far == Program(<<<<10, Goto(200)>>, <<44, PrintOf(44)>>, <<200, PrintOf(2)>>, <<300, PrintOf(3)>>>>)

\* 10 GOSUB 300 / 20 END / 44 PRINT 44 / 300 RETURN
P_FarCall == Program(<<<<10, Gosub(300)>>, <<20, S_END>>, <<44, PrintOf(44)>>, <<300, S_RETURN>>>>)

\* 10 GOSUB 20 / 20 RETURN / 30 PRINT 1: the RETURN is the line after the GOSUB
P_Return == Program(<<<<10, Gosub(20)>>, <<20, S_RETURN>>, <<30, PrintOf(1)>>>>)

\* 10 GOSUB 40 / 20 PRINT 1 / 30 END / 40 GOSUB 60 / 50 RETURN / 60 PRINT 2 / 70 RETURN
P_Nested ==
    Program(<<<<10, Gosub(40)>>, <<20, PrintOf(1)>>, <<30, S_END>>, <<40, Gosub(60)>>,
              <<50, S_RETURN>>, <<60, PrintOf(2)>>, <<70, S_RETURN>>>>)

\* 10 GOTO 30 / 20 RETURN / 30 GOSUB 20: the GOSUB is the last line
P_Last == Program(<<<<10, Goto(30)>>, <<20, S_RETURN>>, <<30, Gosub(20)>>>>)

\* 10 IF 1 = 1 THEN 30 / 20 PRINT 1 / 30 PRINT 2
P_If == Program(<<<<10, IfThen(30)>>, <<20, PrintOf(1)>>, <<30, PrintOf(2)>>>>)

\* 10 GOSUB 30 / 20 RETURN: no line 30
P_Missing == Program(<<<<10, Gosub(30)>>, <<20, S_RETURN>>>>)

Programs ==
    {P_Calls, P_Self, P_SelfIf, P_SelfCall, P_Far, P_FarCall, P_Return, P_Nested, P_Last,
     P_If, P_Missing}

Targets == {10, 20, 30, 44, 200, 300}

RunInputs ==
    {S_RUN, S_RETURN} \cup {Goto(n) : n \in Targets} \cup {IfThen(n) : n \in Targets}

InitRun == \E storage \in Programs : Started(Holding(Fresh(EditDirectory), storage))

NextRun ==
    \/ \E line \in RunInputs : EnterDirect(line, EndOfFile)
    \/ RunStep(EndOfFile)
    \/ RunExit

SpecRun == InitRun /\ [][NextRun]_vars

\* the index of line number n in a store that holds it
IndexOf(storage, n) == (CHOOSE i \in 1..Len(storage) : storage[i].line_number = n) - 1

\* the latest step executed the stored line text in a RUN
Ran(text) == last.op = "step" /\ last.line = text

\* the latest step, in direct mode or in a RUN, was a branch to line number n
Branched(n) == last.op \in {"direct", "step"} /\ last.line \in {Goto(n), Gosub(n), IfThen(n)}

\* the latest step was a line of a RUN that branches to itself
BranchedToItself(n) ==
    /\ last.op = "step"
    /\ n \in Numbers(program_storage)
    /\ last.pre.program_counter = IndexOf(program_storage, n)

\* C6: a branch to a line number n that the store holds sets program_counter to
\* the index of line n, whatever the size of n, and LINE NOT FOUND is reported
\* exactly when the store holds no line n (a line of a RUN that branches to
\* itself is left to C7)
C6_FullLineNumber ==
    \A n \in Targets :
        (Branched(n) /\ ~BranchedToItself(n)) =>
            IF n \in Numbers(program_storage)
            THEN /\ ~Reported("LINE NOT FOUND")
                 /\ program_counter = IndexOf(program_storage, n)
            ELSE Reported("LINE NOT FOUND")

\* C7: in a RUN, after a branch that found its line n (n small enough for 8 bits)
\* the next line executed is line n, also when line n is the branch itself:
\* RUN of 10 GOTO 10 / 20 PRINT 1 never comes to line 20
C7_BranchToItself ==
    /\ \A n \in {m \in Targets : m <= 127} :
           (/\ last.op = "step"
            /\ Branched(n)
            /\ n \in Numbers(program_storage))
               => (where = "run" /\ is_running /\ program_counter = IndexOf(program_storage, n))
    /\ (program_storage = P_Self /\ where = "run") => program_counter = 0

\* C8: in a RUN, the RETURN that pops the entry k+1 pushed by the GOSUB at index
\* k makes index k+1 the next line executed (the program ends when k+1 is the
\* line count), wherever the RETURN is; and a GOSUB at index k pushes k+1
C8_ReturnToNextLine ==
    /\ (Ran(S_RETURN) /\ last.pre.stack_pointer > 0)
           => /\ is_running
              /\ program_counter = last.pre.gosub_stack[last.pre.stack_pointer - 1]
    /\ \A n \in {m \in Targets : m <= 127} :
           (Ran(Gosub(n)) /\ last.pre.stack_pointer < STACK_SIZE)
               => gosub_stack[last.pre.stack_pointer] = last.pre.program_counter + 1

\* the line begins with the keyword and a space
Begins(line, keyword) ==
    /\ Len(line) > Len(keyword)
    /\ SubSeq(line, 1, Len(keyword) + 1) = keyword \o <<" ">>

\* the latest step was a GOSUB
Called_ == last.op \in {"direct", "step"} /\ Begins(last.line, S_GOSUB)

\* C9: 0 <= stack_pointer <= STACK_SIZE always, and a GOSUB at depth STACK_SIZE
\* reports GOSUB STACK OVERFLOW, pushes nothing and does not branch
C9_StackBounded ==
    /\ stack_pointer \in 0..STACK_SIZE
    /\ (Called_ /\ last.pre.stack_pointer = STACK_SIZE)
           => /\ Reported("GOSUB STACK OVERFLOW")
              /\ stack_pointer = STACK_SIZE
              /\ gosub_stack = last.pre.gosub_stack
              /\ program_counter = last.pre.program_counter

\* the 65th GOSUB of 10 GOSUB 20 / 20 GOTO 10 was refused
C9_Overflowed ==
    /\ Ran(Gosub(20))
    /\ program_storage = P_Calls
    /\ last.pre.stack_pointer = STACK_SIZE
    /\ Reported("GOSUB STACK OVERFLOW")
    /\ ~is_running

\* C10: in a RUN a GOSUB adds one entry on top of the stack, a RETURN takes off
\* the top entry, the most recent one not yet returned from, and nothing else
\* changes the stack; so the depth is back at its value before the first GOSUB
\* once every GOSUB has been matched by a RETURN: in the RUN of the nested calls
\* of P_Nested it is 0 at the lines 20 and 30 that follow both RETURNs, and 1
\* between the two RETURNs
C10_MatchedCalls ==
    /\ last.op = "step" =>
           IF Called_ /\ last.pre.stack_pointer < STACK_SIZE
           THEN /\ stack_pointer = last.pre.stack_pointer + 1
                /\ gosub_stack = [last.pre.gosub_stack EXCEPT
                                      ![last.pre.stack_pointer] = last.pre.program_counter + 1]
           ELSE IF last.line = S_RETURN /\ last.pre.stack_pointer > 0
           THEN /\ stack_pointer = last.pre.stack_pointer - 1
                /\ gosub_stack = last.pre.gosub_stack
           ELSE /\ stack_pointer = last.pre.stack_pointer
                /\ gosub_stack = last.pre.gosub_stack
    /\ (program_storage = P_Nested /\ where = "run" /\ is_running) =>
           stack_pointer = (IF program_counter \in {0, 1, 2} THEN 0
                            ELSE IF program_counter \in {3, 4} THEN 1
                            ELSE 2)

\* the inner RETURN of P_Nested took the second entry off and left the first
C10_InnerReturned ==
    /\ Ran(S_RETURN)
    /\ program_storage = P_Nested
    /\ last.pre.stack_pointer = 2
    /\ stack_pointer = 1
    /\ gosub_stack[0] = 1
    /\ program_counter = 4

----------------------------------------------------------------------------
(* Specification SpecMode: RUN, LIST, NEW, SAVE and LOAD as lines of a      *)
(* stored program and in direct mode, programs that stop on an error, and   *)
(* what main prints after a statement                                       *)

\* "SAVE <f>"
Save(f) == S_SAVE \o <<" ">> \o f

\* "LOAD <f>"
Load(f) == S_LOAD \o <<" ">> \o f

\* "LET <v> = <n>"
LetOf(v, n) == S_LET \o <<" ", v, " ", "=", " ">> \o FormatInt(n)

\* "PRINT 1 / 0"
L_PrintByZero == S_PRINT \o <<" ", "1", " ", "/", " ", "0">>

\* "FOO"
L_Unknown == <<"F", "O", "O">>

\* the statements that execute_statement guards with is_running && program_counter > 0
ModeCommands == {S_RUN, S_LIST, S_NEW, Save(F_g), Load(F_g)}

\* the error of the guard, by statement
Refusal ==
    (S_RUN :> "CAN'T USE RUN IN A PROGRAM")
        @@ (S_LIST :> "CAN'T USE LIST IN A PROGRAM")
        @@ (S_NEW :> "CAN'T USE NEW IN A PROGRAM")
        @@ (Save(F_g) :> "CAN'T USE SAVE IN A PROGRAM")
        @@ (Load(F_g) :> "CAN'T USE LOAD IN A PROGRAM")

\* 10 <c> / 20 PRINT 1: the statement is the first line of the store
M_First(c) == Program(<<<<10, c>>, <<20, PrintOf(1)>>>>)

\* 10 LET A = 7 / 20 <c> / 30 PRINT 2: the statement is a later line
M_Later(c) == Program(<<<<10, LetOf("A", 7)>>, <<20, c>>, <<30, PrintOf(2)>>>>)

\* 10 GOSUB 99 / 20 PRINT 1: the first line fails after its push
M_Missing == Program(<<<<10, Gosub(99)>>, <<20, PrintOf(1)>>>>)

\* 10 GOTO 300 / 44 PRINT 44 / 50 PRINT 2: no line 300
M_Low == Program(<<<<10, Goto(300)>>, <<44, PrintOf(44)>>, <<50, PrintOf(2)>>>>)

\* the statements that report an error when they are line 20 of M_Later
ErrorLines == {Goto(99), S_RETURN, L_Unknown, L_PrintByZero}

\* RUN as the first line is left out: run_program would call itself without end
ModePrograms ==
    {M_First(c) : c \in ModeCommands \ {S_RUN}}
        \cup {M_Later(c) : c \in ModeCommands \cup ErrorLines}
        \cup {M_Missing, M_Low}

ModeInputs ==
    ModeCommands \cup {LetOf("A", 5), Goto(99), Goto(300), Goto(44), Load(F_missing), S_LOAD}

InitMode == \E storage \in ModePrograms : Started(Holding(Fresh(EditDirectory), storage))

NextMode ==
    \/ \E line \in ModeInputs : EnterDirect(line, EndOfFile)
    \/ EnterBlank(<<>>)
    \/ RunStep(EndOfFile)
    \/ RunExit

\* run_program's loop runs on by itself until its condition fails
SpecMode == InitMode /\ [][NextMode]_vars /\ WF_vars(RunExit)

\* the latest step, a line of a RUN, left the store, the variables and the call
\* stack as they were
Untouched ==
    /\ program_storage = last.pre.program_storage
    /\ line_count = last.pre.line_count
    /\ variables = last.pre.variables
    /\ gosub_stack = last.pre.gosub_stack
    /\ stack_pointer = last.pre.stack_pointer

\* C11: RUN, LIST, NEW, SAVE and LOAD as a line of a running program, the first
\* line included, report CAN'T USE ... IN A PROGRAM, stop the program and leave
\* the store, the variables and the call stack unchanged
C11_RefusedInProgram ==
    \A c \in ModeCommands :
        Ran(c) => /\ Reported(Refusal[c])
                  /\ ~is_running
                  /\ Untouched

\* C12: in direct mode RUN, LIST, NEW, SAVE and LOAD are never refused with
\* CAN'T USE ... IN A PROGRAM, whatever program_counter was left by earlier runs,
\* errors and direct-mode branches
C12_AcceptedInDirectMode ==
    \A c \in ModeCommands : Direct(c) => ~Reported(Refusal[c])

\* the latest step was a RUN that entered run_program
RunStarted == last.op \in {"direct", "step"} /\ where = "run" /\ last.trace = <<"RUN">>

\* the record of a store with the lowest line number
Lowest(storage) ==
    CHOOSE rec \in {storage[i] : i \in 1..Len(storage)} :
        \A i \in 1..Len(storage) : rec.line_number <= storage[i].line_number

\* C13: when RUN starts, all 26 variables are 0, the call stack is empty and
\* program_counter is 0, whatever the values before, and the statement executed
\* first is the stored line with the lowest line number
C13_RunStarts ==
    [][/\ RunStarted' =>
              /\ variables' = [v \in Letters |-> 0]
              /\ stack_pointer' = 0
              /\ program_counter' = 0
              /\ is_running'
       /\ (RunStarted /\ last'.op = "step") =>
              /\ last'.pre.program_counter = 0
              /\ last'.line = Lowest(program_storage).text]_vars

\* RUN started with A = 5 left by a LET and one entry left on the call stack by
\* the failed GOSUB of an earlier run
C13_StartedAfterLeftovers ==
    /\ RunStarted
    /\ last.pre.variables["A"] = 5
    /\ last.pre.stack_pointer = 1
    /\ variables["A"] = 0
    /\ stack_pointer = 0

\* the latest step executed NEW: new_program was called
NewExecuted == last.op \in {"direct", "step"} /\ last.trace = <<"NEW">>

\* C14: after NEW is executed the store count is 0, all 26 variables are 0, the
\* call stack is empty and program_counter is 0
C14_AfterNew ==
    NewExecuted =>
        /\ line_count = 0
        /\ program_storage = <<>>
        /\ variables = [v \in Letters |-> 0]
        /\ stack_pointer = 0
        /\ program_counter = 0

\* the latest step printed an ERROR line
AnyError == \E i \in 1..Len(out) : out[i].k = "ERROR"

\* the latest step was a line of a RUN that reported an error
Errored == last.op = "step" /\ AnyError

\* C15: when a statement of a running program reports an error, the running flag
\* is cleared and program_counter is not advanced; the only step that follows is
\* the end of run_program's loop, so no further line of the program is executed,
\* and the interpreter comes back to the REPL, where it reads the next line
C15_ErrorStopsRun ==
    /\ [](Errored => /\ ~is_running
                     /\ program_counter = last.pre.program_counter
                     /\ where = "run")
    /\ [][Errored => /\ last'.op = "exit"
                     /\ where' = "repl"
                     /\ program_counter' = program_counter]_vars
    /\ (Errored ~> (where = "repl" /\ last.op = "exit"))
    /\ []((where = "repl" /\ last.op = "exit") => ENABLED EnterBlank(<<>>))

\* line 20 GOTO 99 of a RUN reported LINE NOT FOUND with line 30 still to come
C15_StoppedBeforeLastLine ==
    /\ Errored
    /\ last.line = Goto(99)
    /\ last.pre.program_counter = 1
    /\ program_counter = 1
    /\ line_count = 3
    /\ ~is_running

\* C17: GOTO n with no line n in the store reports LINE NOT FOUND and leaves
\* program_counter unchanged, and in a RUN it clears the running flag
C17_LineNotFound ==
    \A n \in {44, 99, 300} :
        (last.op \in {"direct", "step"} /\ last.line = Goto(n)
            /\ n \notin Numbers(last.pre.program_storage))
                => /\ Reported("LINE NOT FOUND")
                   /\ program_counter = last.pre.program_counter
                   /\ ~is_running

\* the tokens of the latest step without their arguments
Kinds == [i \in 1..Len(out) |-> out[i].k]

\* C18: after a direct-mode statement that has completed, the output ends with
\* OK then READY exactly when no error was reported, an error being followed by
\* READY alone; after a blank line the output is READY alone
C18_OkThenReady ==
    /\ (last.op = "direct" /\ where = "repl") =>
           /\ Len(out) >= 1 /\ Kinds[Len(out)] = "READY"
           /\ (Len(out) >= 2 /\ Kinds[Len(out) - 1] = "OK") <=> ~AnyError
           /\ AnyError => Kinds[Len(out) - 1] = "ERROR"
    /\ last.op = "blank" => Kinds = <<"READY">>

----------------------------------------------------------------------------
(* Specification SpecDiv: statements that divide, in direct mode for every  *)
(* value of the dividend A with the divisor B 0 or 3, and as line 20 of a   *)
(* stored program                                                           *)

\* "PRINT A / B"
D_Print == S_PRINT \o <<" ", "A", " ", "/", " ", "B">>

\* "LPRINT A / B"
D_Lprint == S_LPRINT \o <<" ", "A", " ", "/", " ", "B">>

\* "PRINT A / 0"
D_PrintZero == S_PRINT \o <<" ", "A", " ", "/", " ", "0">>

\* "PRINT (A / B) + 1"
D_Paren == S_PRINT \o <<" ", "(", "A", " ", "/", " ", "B", ")", " ", "+", " ", "1">>

\* "PRINT 1 + A / B": the divisor of 1 + A
D_Chain == S_PRINT \o <<" ", "1", " ", "+", " ", "A", " ", "/", " ", "B">>

\* "IF A / B = 0 THEN PRINT 1"
D_IfLeft ==
    S_IF \o <<" ", "A", " ", "/", " ", "B", " ", "=", " ", "0", " ">> \o S_THEN \o <<" ">> \o PrintOf(1)

\* "IF 0 = A / B THEN PRINT 1"
D_IfRight ==
    S_IF \o <<" ", "0", " ", "=", " ", "A", " ", "/", " ", "B", " ">> \o S_THEN \o <<" ">> \o PrintOf(1)

DivLines == {D_Print, D_Lprint, D_PrintZero, D_Paren, D_Chain, D_IfLeft, D_IfRight}

Divisors == {0, 3}

\* 10 LET A = 100 / 20 <c> / 30 PRINT 2
D_Program(c) == Program(<<<<10, LetOf("A", 100)>>, <<20, c>>, <<30, PrintOf(2)>>>>)

InitDiv ==
    \E a \in Bytes, b \in Divisors, c \in DivLines :
        Started(Assigned(Holding(Fresh(EditDirectory), D_Program(c)), a, b))

NextDiv ==
    \/ \E line \in DivLines \cup {S_RUN} : EnterDirect(line, EndOfFile)
    \/ RunStep(EndOfFile)
    \/ RunExit

SpecDiv == InitDiv /\ [][NextDiv]_vars

\* the divisor that the line finds
DivisorOf(c) == IF c = D_PrintZero THEN 0 ELSE last.pre.variables["B"]

\* the latest step printed a number or a text
AnyValue == \E i \in 1..Len(out) : out[i].k \in {"PRINT", "LPRINT", "TEXT"}

\* C16: x / 0 reports DIVISION BY ZERO for every x and halts the statement: PRINT
\* and LPRINT emit no value, the tail of an IF is not executed, and in a RUN the
\* running flag is cleared (and the program goes no further)
C16_DivisionByZero ==
    \A c \in DivLines :
        ((Direct(c) \/ Ran(c)) /\ DivisorOf(c) = 0) =>
            /\ Reported("DIVISION BY ZERO")
            /\ ~AnyValue
            /\ last.trace \in {<<"PRINT">>, <<"LPRINT">>, <<"IF">>}
            /\ variables = last.pre.variables
            /\ last.op = "step" => /\ ~is_running
                                   /\ where = "run"
                                   /\ program_counter = last.pre.program_counter

\* line 20 IF 0 = A / B THEN PRINT 1 of a RUN divided 100 by 0
C16_IfDividedByZero ==
    /\ Ran(D_IfRight)
    /\ last.pre.variables["A"] = 100
    /\ last.pre.variables["B"] = 0
    /\ Reported("DIVISION BY ZERO")
    /\ ~is_running
    /\ line_count = 3

----------------------------------------------------------------------------
(* Specification SpecFile: lines typed into an empty store, SAVE, NEW, LOAD  *)
(* and LIST                                                                 *)

\* a text that begins with digits
T_Digits == <<"2", "0">>

\* a text that ends with white space
T_Trailing == S_BEEP \o <<" ", " ">>

\* "10  REM": two blanks after the number
L_TwoBlanks == <<"1", "0", " ", " ">> \o S_REM

FileInputs ==
    {Typed(10, S_REM), L_TwoBlanks, Typed(20, T_Digits), Typed(20, T_Trailing),
     Typed(30, LongText), <<" ">> \o FormatInt(20), FormatInt(10), FormatInt(20)}
        \cup {S_NEW, S_LIST, Save(F_missing), Load(F_missing), Load(F_g)}

InitFile == Started(Fresh(EditDirectory))

NextFile ==
    \E line \in FileInputs :
        \/ EnterStoredLine(line)
        \/ EnterDirect(line, EndOfFile)

SpecFile == InitFile /\ [][NextFile]_vars

\* the listing of the store written by LIST in the latest step
Listed == [i \in 1..Len(out) - 2 |-> out[i].t]

\* the store after SAVE f, NEW and LOAD f
Reloaded(e, f) == load_program(new_program(save_program(e, f)), f).program_storage

\* the store after the lines of the listing were typed into a fresh interpreter
Retyped(e) == load_lines(Fresh(e.files), listing(e)).program_storage

\* C19: for every reachable store, SAVE f, NEW, LOAD f gives back the same line
\* numbers and texts, and so does typing the lines that LIST prints into a fresh
\* interpreter; a LOAD of the file that a SAVE wrote lists as the file reads
C19_ListingRoundTrip ==
    /\ Reloaded(Env(<<>>, EndOfFile), F_missing) = program_storage
    /\ Retyped(Env(<<>>, EndOfFile)) = program_storage
    /\ \A i \in 1..line_count :
           /\ Fits(listing_line(program_storage[i]))
           /\ isdigit(FirstChar(listing_line(program_storage[i])))
    /\ Direct(Save(F_missing)) => files[F_missing] = FileOf(listing(Globals))
    /\ Direct(S_LIST) => Listed = listing(Globals)
    /\ (Direct(Load(F_missing)) /\ last.pre.files[F_missing].exists)
           => listing(Globals) = last.pre.files[F_missing].lines

\* LOAD h after NEW brought back three saved lines: a text that begins with
\* digits, one that ends with blanks and one of MAX_LINE_LEN - 1 characters
C19_SavedAndLoaded ==
    /\ Direct(Load(F_missing))
    /\ last.pre.line_count = 0
    /\ line_count = 3
    /\ TextOf(program_storage, 10) = S_REM
    /\ TextOf(program_storage, 20) \in {T_Digits, T_Trailing}
    /\ Len(TextOf(program_storage, 30)) = MAX_LINE_LEN - 1
    /\ listing(Globals) = last.pre.files[F_missing].lines

\* the line numbers looked up: stored ones, ones between and around them, the
\* ends of the valid range, and numbers that are never stored
Probes == {-56, 0, 1, 10, 15, 20, 30, 31, 1001, 1250, 1498, 1499, 1500, 1501, 65535}

\* the records of the store with line number n
Holders(n) == {i \in 1..line_count : program_storage[i].line_number = n}

\* what find_line_index(n) returns for the store of this state
Found(n) == find_line_index(Env(<<>>, EndOfFile), n)

\* C20: find_line_index(n) returns an index i with 0 <= i < line_count and
\* program_storage[i].line_number = n if and only if the store holds a record
\* with line number n, and -1 otherwise
C20_FindLineIndex ==
    \A n \in Probes :
        IF Holders(n) # {}
        THEN /\ Found(n) \in 0..(line_count - 1)
             /\ program_storage[Found(n) + 1].line_number = n
        ELSE Found(n) = -1

\* the store being full, line 30 was not found and so refused, line 20 is found
\* at index 1 after line 10, and line 1498 at the last index
C20_FoundInFullStore ==
    /\ Edited(30, S_REM)
    /\ Reported("PROGRAM MEMORY FULL")
    /\ line_count = MAX_LINES
    /\ Found(10) = 0
    /\ Found(20) = 1
    /\ Found(30) = -1
    /\ Found(1001) = 2
    /\ Found(1498) = MAX_LINES - 1

----------------------------------------------------------------------------
(* Further properties of the line editor, checked under Spec *)

\* the line from its first character that is not white space
Trimmed(line) == Tail_(line, SkipBlank(line, 1))

\* C21: for every line that main takes as a stored line, white space before the
\* number allowed, the text stored excludes the digits of the line number and
\* the white space after them, and a line that holds only a number deletes that
\* line and stores no text
C21_TextAfterNumber ==
    (last.op = "store" /\ atoi(last.line) \in 1..65535) =>
        Upsert(atoi(last.line), text_part(Trimmed(last.line)),
               last.pre.line_count < MAX_LINES, Kept(text_part(Trimmed(last.line))))

\* the digits that the line begins with, after white space
NumberDigits(line) == SubSeq(Trimmed(line), 1, SkipDigits(Trimmed(line), 1) - 1)

\* the digits without leading zeros
RECURSIVE StripZeros(_)
StripZeros(d) == IF d # <<>> /\ Head(d) = "0" THEN StripZeros(Tail(d)) ELSE d

\* the number written by the digits d (no leading zeros) is 0 or above 65535
OutOfRange(d) == d = <<>> \/ Len(d) > 5 \/ atoi(d) > 65535

\* C22: store_line with a line number that is 0 or greater than 65535 reports
\* INVALID LINE NUMBER and leaves the program store and line_count unchanged
C22_InvalidLineNumber ==
    (last.op = "store" /\ OutOfRange(StripZeros(NumberDigits(last.line)))) =>
        /\ Reported("INVALID LINE NUMBER")
        /\ program_storage = last.pre.program_storage
        /\ line_count = last.pre.line_count

\* C23: when the store holds MAX_LINES records, a line with a new line number
\* reports PROGRAM MEMORY FULL and leaves the store unchanged, while the text of
\* an existing line is still replaced and an existing line is still deleted
C23_MemoryFull ==
    (/\ last.op = "store"
     /\ last.pre.line_count = MAX_LINES
     /\ atoi(last.line) \in 1..65535) =>
        IF atoi(last.line) \notin Numbers(last.pre.program_storage)
        THEN /\ text_part(last.line) # <<>> => Reported("PROGRAM MEMORY FULL")
             /\ program_storage = last.pre.program_storage
             /\ line_count = MAX_LINES
        ELSE IF text_part(last.line) # <<>>
        THEN /\ ~AnyError
             /\ line_count = MAX_LINES
             /\ program_storage =
                    [last.pre.program_storage EXCEPT
                         ![IndexOf(last.pre.program_storage, atoi(last.line)) + 1].text =
                             Kept(text_part(last.line))]
        ELSE /\ ~AnyError
             /\ line_count = MAX_LINES - 1
             /\ Numbers(program_storage) =
                    Numbers(last.pre.program_storage) \ {atoi(last.line)}

\* in the full store the text of line 20 was replaced
C23_ReplacedWhenFull ==
    /\ Edited(20, S_END)
    /\ last.pre.line_count = MAX_LINES
    /\ TextOf(last.pre.program_storage, 20) = S_REM
    /\ TextOf(program_storage, 20) = S_END
    /\ line_count = MAX_LINES

----------------------------------------------------------------------------
(* Specification SpecIf: IF with every relational operator and every kind   *)
(* of tail, in direct mode and as line 20 of a stored program.               *)
(* Specification SpecStmt: RETURN, END and STOP, the module stubs, unknown   *)
(* and lower-case keywords, in direct mode and as line 20 of a stored        *)
(* program, and the RUN of the example program of the specification          *)

RelOps == {<<"=">>, <<"<", ">">>, <<"<">>, <<">">>}

\* "IF A <op> B THEN <tail>"
IfLine(op, tail) ==
    S_IF \o <<" ", "A", " ">> \o op \o <<" ", "B", " ">> \o S_THEN \o <<" ">> \o tail

\* "IF A = A THEN PRINT 8": an IF that is the tail of an IF
T_Nested == S_IF \o <<" ", "A", " ", "=", " ", "A", " ">> \o S_THEN \o <<" ">> \o PrintOf(8)

\* the tails that begin with a digit: a line that is stored and one that is not
DigitTails == {FormatInt(50), FormatInt(99)}

\* the tails that are statements, the empty statement among them
StatementTails ==
    {PrintOf(7), S_END, S_STOP, S_RETURN, T_Nested, L_Unknown, <<>>}

IfLines == {IfLine(op, tail) : op \in RelOps, tail \in DigitTails \cup StatementTails}

\* "$IMPORT", "$INCLUDE X", "$MERGE", "SYSTEM", "$import"
L_Import == S_IMPORT
L_Include == S_INCLUDE \o <<" ", "X">>
L_Merge == S_MERGE
L_ImportLower == <<"$", "i", "m", "p", "o", "r", "t">>

\* "$FOO": a keyword that begins with '$' and is none of the three
L_Dollar == <<"$", "F", "O", "O">>

StubLines == {L_Import, L_Include, L_Merge, S_SYSTEM, L_ImportLower, L_Dollar}

\* "print 7", "Print 7", "goto 50", "stop", "if A = A then print 8"
L_PrintLower == <<"p", "r", "i", "n", "t", " ", "7">>
L_PrintMixed == <<"P", "r", "i", "n", "t", " ", "7">>
L_GotoLower == <<"g", "o", "t", "o", " ", "5", "0">>
L_StopLower == <<"s", "t", "o", "p">>
L_IfLower == <<"i", "f", " ", "A", " ", "=", " ", "A", " ", "t", "h", "e", "n", " ", "p", "r", "i", "n", "t", " ", "8">>

CaseLines == {L_PrintLower, L_PrintMixed, L_GotoLower, L_StopLower, L_IfLower}

\* "A = 5": an assignment without LET
L_NoLet == <<"A", " ", "=", " ", "5">>

UnknownLines == {L_Unknown, L_NoLet, L_Dollar}

\* the tails that end a RUN or report, and the empty one
EndTails == {S_END, S_STOP, S_RETURN, <<>>}

StmtLines ==
    StubLines \cup CaseLines \cup UnknownLines \cup {S_END, S_STOP, S_RETURN}
        \cup {IfLine(<<"=">>, tail) : tail \in EndTails}

\* the statements that are also run as line 20 of a stored program
ProgramLines ==
    {S_END, S_STOP, S_RETURN, S_SYSTEM, L_Import, L_Dollar, L_Unknown, L_StopLower}
        \cup {IfLine(<<"<", ">">>, tail) : tail \in EndTails}

\* the IF statements that are also run as line 20: one true and one false there
IfProgramLines ==
    {IfLine(op, tail) : op \in {<<"<", ">">>, <<"<">>}, tail \in DigitTails \cup StatementTails}

\* 10 LET A = 1 / 20 <c> / 30 PRINT 2 / 50 PRINT 5
T_Program(c) ==
    Program(<<<<10, LetOf("A", 1)>>, <<20, c>>, <<30, PrintOf(2)>>, <<50, PrintOf(5)>>>>)

\* 10 LET A=1 / 20 IF A<3 THEN 50 / 30 PRINT 99 / 40 END / 50 LET A=A+1 / 60 GOTO 20
P_Example ==
    Program(<<<<10, <<"L", "E", "T", " ", "A", "=", "1">>>>,
              <<20, <<"I", "F", " ", "A", "<", "3", " ", "T", "H", "E", "N", " ", "5", "0">>>>,
              <<30, PrintOf(99)>>,
              <<40, S_END>>,
              <<50, <<"L", "E", "T", " ", "A", "=", "A", "+", "1">>>>,
              <<60, Goto(20)>>>>)

\* the values of A and B at the start: A < B, A = B, A > B, and the two ends
VarPairs == {<<-128, 127>>, <<0, 0>>, <<5, -1>>, <<127, -128>>, <<-1, -1>>}

InitIf ==
    \/ \E c \in IfProgramLines : Started(Holding(Fresh(EditDirectory), T_Program(c)))
    \/ \E ab \in VarPairs :
           Started(Assigned(Holding(Fresh(EditDirectory), T_Program(S_REM)), ab[1], ab[2]))

NextIf ==
    \/ \E line \in IfLines \cup {S_RUN} : EnterDirect(line, EndOfFile)
    \/ RunStep(EndOfFile)
    \/ RunExit

SpecIf == InitIf /\ [][NextIf]_vars

InitStmt ==
    \/ \E c \in ProgramLines : Started(Holding(Fresh(EditDirectory), T_Program(c)))
    \/ Started(Holding(Fresh(EditDirectory), P_Example))

NextStmt ==
    \/ \E line \in StmtLines \cup {S_RUN} : EnterDirect(line, EndOfFile)
    \/ EnterBlank(<<" ", " ">>)
    \/ RunStep(EndOfFile)
    \/ RunExit

\* the condition of run_program's while loop
Looping == where = "run" /\ is_running /\ program_counter < line_count

\* run_program's loop goes on by itself, line after line, until its condition
\* fails, and then returns to main: weak fairness of RunExit and of RunStep, the
\* latter written out with Looping, which is when a pass of the loop is possible
SpecStmt ==
    /\ InitStmt /\ [][NextStmt]_vars
    /\ WF_vars(RunExit)
    /\ ([]<>(~Looping) \/ []<><<RunStep(EndOfFile)>>_vars)

----------------------------------------------------------------------------
(* IF ... THEN, checked under SpecIf *)

\* the interpreter with the globals g and the line buffer buf
EnvOf(g, buf) ==
    [program_storage |-> g.program_storage, line_count |-> g.line_count,
     variables |-> g.variables, gosub_stack |-> g.gosub_stack,
     stack_pointer |-> g.stack_pointer, program_counter |-> g.program_counter,
     is_running |-> g.is_running, files |-> g.files,
     buf |-> buf, parser_ptr |-> 1, value |-> 0, stdin |-> EndOfFile,
     out |-> <<>>, trace |-> <<>>, run_called |-> FALSE, exited |-> FALSE]

\* what main does with what execute_statement left
Returned(r) == IF r.exited \/ r.run_called THEN r ELSE Ready(r)

\* the statement buf executed from the globals g the way the latest step was:
\* by main in direct mode, or by one pass of run_program's loop
After(g, op, buf) ==
    IF op = "direct"
    THEN Returned(execute_statement([EnvOf(g, buf) EXCEPT !.is_running = TRUE]))
    ELSE advance(execute_statement(EnvOf(g, line_buffer(buf))), g.program_counter)

\* the globals and the output are those of e
SameAs(e) ==
    /\ program_storage = e.program_storage
    /\ line_count = e.line_count
    /\ variables = e.variables
    /\ gosub_stack = e.gosub_stack
    /\ stack_pointer = e.stack_pointer
    /\ program_counter = e.program_counter
    /\ is_running = e.is_running
    /\ files = e.files
    /\ out = e.out

\* the relation that the operator op stands for, on two signed bytes
Holds(op, a, b) ==
    \/ op = <<"=">> /\ a = b
    \/ op = <<"<", ">">> /\ a # b
    \/ op = <<"<">> /\ a < b
    \/ op = <<">">> /\ a > b

\* the latest step executed "IF A <op> B THEN <tail>" with the condition as given
IfExecuted(op, tail, holds) ==
    /\ last.op \in {"direct", "step"}
    /\ last.line = IfLine(op, tail)
    /\ Holds(op, last.pre.variables["A"], last.pre.variables["B"]) = holds

\* nothing but the step itself happened: the next line in a RUN, OK and READY at
\* the REPL
NoEffect ==
    /\ program_storage = last.pre.program_storage
    /\ line_count = last.pre.line_count
    /\ variables = last.pre.variables
    /\ gosub_stack = last.pre.gosub_stack
    /\ stack_pointer = last.pre.stack_pointer
    /\ files = last.pre.files
    /\ IF last.op = "step"
       THEN is_running /\ program_counter = last.pre.program_counter + 1 /\ out = <<>>
       ELSE /\ ~is_running
            /\ program_counter = last.pre.program_counter
            /\ Kinds = <<"OK", "READY">>

\* C24: IF A <op> B THEN <tail> with op one of =, <>, <, > on the two signed
\* bytes: when the condition is true and the tail starts with a digit, the step
\* leaves what GOTO <tail> leaves; when it is true and the tail does not start
\* with a digit, it leaves what the tail executed as a statement leaves (a nested
\* IF, END, STOP, RETURN, PRINT, an unknown word, the empty statement); when the
\* condition is false the tail has no effect
C24_IfThen ==
    \A op \in RelOps :
        /\ \A n \in {50, 99} :
               IfExecuted(op, FormatInt(n), TRUE) => SameAs(After(last.pre, last.op, Goto(n)))
        /\ \A tail \in StatementTails :
               IfExecuted(op, tail, TRUE) => SameAs(After(last.pre, last.op, tail))
        /\ \A tail \in DigitTails \cup StatementTails :
               IfExecuted(op, tail, FALSE) => NoEffect

\* in a RUN, IF A <> B THEN 50 with A = 1 and B = 0 has jumped to line 50
C24_JumpedFromIf ==
    /\ Ran(IfLine(<<"<", ">">>, FormatInt(50)))
    /\ last.pre.variables["A"] = 1
    /\ is_running
    /\ program_counter = 3

----------------------------------------------------------------------------
(* The module stubs, RETURN, END and STOP, unknown words, checked under SpecStmt *)

\* the latest step executed the statement line, at the REPL or in a RUN
Did(line) == last.op \in {"direct", "step"} /\ last.line = line

\* the module hook was invoked: cmd_stub printed its line
Hooked == \E i \in 1..Len(out) : out[i].k = "FRAMEWORK"

\* C25: every statement whose keyword begins with '$' ($IMPORT, $INCLUDE,
\* $MERGE, or any other such keyword) and SYSTEM invoke the module hook and
\* report no error; in a RUN the running flag stays true and the program goes on
\* with the next line
C25_ModuleHook ==
    \A line \in StubLines :
        Did(line) =>
            /\ Hooked
            /\ ~AnyError
            /\ last.op = "step" =>
                   is_running /\ program_counter = last.pre.program_counter + 1


\* the loop of run_program is at work on the example program
ExampleRunning == program_storage = P_Example /\ where = "run"

\* the latest step printed 99 from the example program
Example99 ==
    /\ program_storage = P_Example
    /\ last.op = "step"
    /\ \E i \in 1..Len(out) : out[i] = Printed(99)

\* the part of the specification's statement that fails: in a RUN of the example
\* program 99 is never printed
C27_ExampleNever99 == ~Example99

\* C27: every RUN of 10 LET A=1 / 20 IF A<3 THEN 50 / 30 PRINT 99 / 40 END /
\* 50 LET A=A+1 / 60 GOTO 20 terminates, and it prints 99 on the way: line 30
\* is executed when A has reached 3 and only then, and prints 99 alone
C27_ExampleRun ==
    /\ ExampleRunning ~> where = "repl"
    /\ (RunStarted /\ ExampleRunning) ~> Example99
    /\ [](Example99 =>
              /\ last.line = PrintOf(99)
              /\ variables["A"] = 3
              /\ out = <<Printed(99)>>
              /\ is_running)

\* line 30 of the example program has printed 99, A being 3
C27_Printed99 == Example99 /\ last.line = PrintOf(99) /\ variables["A"] = 3 /\ where = "run"


\* C28: RETURN executed with an empty call stack, as a statement or after THEN,
\* reports RETURN WITHOUT GOSUB, leaves the stack depth at 0 and program_counter
\* unchanged, and in a RUN clears the running flag
C28_ReturnWithoutGosub ==
    \A line \in {S_RETURN, IfLine(<<"=">>, S_RETURN), IfLine(<<"<", ">">>, S_RETURN)} :
        (Did(line) /\ (\E i \in 1..Len(last.trace) : last.trace[i] = "RETURN") /\ last.pre.stack_pointer = 0) =>
            /\ Reported("RETURN WITHOUT GOSUB")
            /\ stack_pointer = 0
            /\ gosub_stack = last.pre.gosub_stack
            /\ program_counter = last.pre.program_counter
            /\ ~is_running

\* 20 RETURN of a program that made no call has stopped the RUN at line 20
C28_ReturnStoppedRun ==
    /\ Ran(S_RETURN)
    /\ Reported("RETURN WITHOUT GOSUB")
    /\ program_counter = 1
    /\ ~is_running
    /\ where = "run"


\* END and STOP, as statements and after THEN, in upper and lower case
EndLines ==
    {S_END, S_STOP, L_StopLower}
        \cup {IfLine(op, tail) : op \in {<<"=">>, <<"<", ">">>}, tail \in {S_END, S_STOP}}

\* the same line with STOP for END and END for STOP
Swapped(line) ==
    IF line = S_END THEN S_STOP
    ELSE IF line \in {S_STOP, L_StopLower} THEN S_END
    ELSE IF \E op \in RelOps : line = IfLine(op, S_END)
    THEN IfLine(CHOOSE op \in RelOps : line = IfLine(op, S_END), S_STOP)
    ELSE IfLine(CHOOSE op \in RelOps : line = IfLine(op, S_STOP), S_END)

\* the latest step reached END or STOP
Ended ==
    /\ \E line \in EndLines : Did(line)
    /\ \E i \in 1..Len(last.trace) : last.trace[i] = "END"

\* C29: END and STOP behave identically, as statements and as the tail of a true
\* IF: the step leaves what the other keyword leaves, the running flag is false,
\* variables, program store, call stack and program_counter are what they were,
\* nothing is reported, and in a RUN no further line is executed: the next step
\* is the end of run_program's loop
C29_EndAndStop ==
    /\ [](Ended =>
              /\ SameAs(After(last.pre, last.op, Swapped(last.line)))
              /\ ~is_running
              /\ ~AnyError
              /\ variables = last.pre.variables
              /\ program_storage = last.pre.program_storage
              /\ line_count = last.pre.line_count
              /\ stack_pointer = last.pre.stack_pointer
              /\ program_counter = last.pre.program_counter)
    /\ [][(Ended /\ where = "run") => (last'.op = "exit" /\ where' = "repl")]_vars

\* in a RUN, IF A <> B THEN STOP with A = 1 and B = 0 has stopped the program at
\* line 20, with line 30 still to come
C29_StoppedAfterThen ==
    /\ Ran(IfLine(<<"<", ">">>, S_STOP))
    /\ Ended
    /\ where = "run"
    /\ program_counter = 1
    /\ program_counter + 1 < line_count


\* the statements typed in lower or mixed case, each with its upper-case form
UpperCaseOf ==
    {<<L_PrintLower, PrintOf(7)>>, <<L_PrintMixed, PrintOf(7)>>, <<L_GotoLower, Goto(50)>>,
     <<L_StopLower, S_STOP>>, <<L_IfLower, T_Nested>>, <<L_ImportLower, L_Import>>}

\* C30: a statement whose keyword is none of the known ones (FOO, A = 5, $FOO)
\* reports UNKNOWN COMMAND and changes nothing else, halting a RUN on its line;
\* a statement in lower or mixed case leaves what its upper-case form leaves; a
\* statement that is empty (after a true THEN) is a no-op that reports nothing,
\* and a line of white space at the REPL changes no global and prints READY alone
C30_UnknownCommand ==
    /\ \A line \in UnknownLines :
           Did(line) =>
               /\ Reported("UNKNOWN COMMAND")
               /\ ~is_running
               /\ [Globals EXCEPT !.is_running = FALSE]
                      = [last.pre EXCEPT !.is_running = FALSE]
    /\ \A pair \in UpperCaseOf :
           Did(pair[1]) => SameAs(After(last.pre, last.op, pair[2])) /\ ~AnyError
    /\ \A op \in {<<"=">>, <<"<", ">">>} : Did(IfLine(op, <<>>)) => NoEffect
    /\ last.op = "blank" => Globals = last.pre /\ Kinds = <<"READY">>

\* FOO as line 20 of a program has stopped the RUN there
C30_UnknownStoppedRun ==
    /\ Ran(L_Unknown)
    /\ Reported("UNKNOWN COMMAND")
    /\ where = "run"
    /\ program_counter = 1
    /\ ~is_running

----------------------------------------------------------------------------
(* Specification SpecLiteral: PRINT <literal> at the REPL, for the literals    *)
(* around the byte range and for literals at the ends of the range of long     *)

LiteralBound == 160

\* 2^32 + 300, 2^63 - 1, 2^63, -2^63, -2^63 - 1, 2^64 + 5
WideLiterals ==
    {<<"4", "2", "9", "4", "9", "6", "7", "5", "9", "6">>,
     <<"9", "2", "2", "3", "3", "7", "2", "0", "3", "6", "8", "5", "4", "7", "7", "5", "8", "0", "7">>,
     <<"9", "2", "2", "3", "3", "7", "2", "0", "3", "6", "8", "5", "4", "7", "7", "5", "8", "0", "8">>,
     <<"-", "9", "2", "2", "3", "3", "7", "2", "0", "3", "6", "8", "5", "4", "7", "7", "5", "8", "0", "8">>,
     <<"-", "9", "2", "2", "3", "3", "7", "2", "0", "3", "6", "8", "5", "4", "7", "7", "5", "8", "0", "9">>,
     <<"1", "8", "4", "4", "6", "7", "4", "4", "0", "7", "3", "7", "0", "9", "5", "5", "1", "6", "2", "1">>}

Literals ==
    {FormatInt(n) : n \in (0 - LiteralBound)..LiteralBound}
        \cup {FormatInt(n) : n \in {-300, -257, -256, 255, 256, 257, 300}}
        \cup WideLiterals

\* "PRINT <literal>"
PrintLiteral(literal) == S_PRINT \o <<" ">> \o literal

InitLiteral == Started(Fresh(EditDirectory))

NextLiteral == \E literal \in Literals : EnterDirect(PrintLiteral(literal), EndOfFile)

SpecLiteral == InitLiteral /\ [][NextLiteral]_vars

\* the decimal digits d read modulo 256, acc being the value of those read so far
RECURSIVE Mod256(_, _)
Mod256(d, acc) ==
    IF d = <<>> THEN acc ELSE Mod256(Tail(d), (acc * 10 + DigitValue(Head(d))) % 256)

\* the literal reduced modulo 256 to a signed byte
LiteralByte(literal) ==
    IF Head(literal) = "-"
    THEN SignedChar(0 - Mod256(Tail(literal), 0))
    ELSE SignedChar(Mod256(literal, 0))

\* C26: an integer literal in an expression is accepted beyond [-128, 127] and
\* its value is the literal reduced modulo 256 to a signed byte (128 gives -128,
\* -129 gives 127, 300 gives 44): PRINT <literal> prints that byte and reports
\* nothing
C26_LiteralModulo256 ==
    \A literal \in Literals :
        Direct(PrintLiteral(literal)) =>
            /\ ~AnyError
            /\ Kinds = <<"PRINT", "OK", "READY">>
            /\ out[1] = Printed(LiteralByte(literal))

----------------------------------------------------------------------------
(* Specification SpecInput: INPUT A and INPUT b at the REPL and 10 INPUT A in  *)
(* a RUN, with decimal numbers and end of input on stdin                       *)

\* "INPUT A", "INPUT b"
L_InputA == S_INPUT \o <<" ", "A">>
L_InputB == S_INPUT \o <<" ", "b">>

\* the variable that each line names
InputVariable == [line \in {L_InputA, L_InputB} |-> IF line = L_InputA THEN "A" ELSE "B"]

\* numbers within the range of long and of at most 19 characters
EnteredNarrow ==
    {FormatInt(n) : n \in {5, -1, 127, 128, 300, -129}}
        \cup {<<"4", "2", "9", "4", "9", "6", "7", "5", "9", "6">>, <<"9", "2", "2", "3", "3", "7", "2", "0", "3", "6", "8", "5", "4", "7", "7", "5", "8", "0", "7">>}

\* 2^63, which is beyond the range of long, and 10^21 + 5, which has 22 digits
EnteredWide ==
    {<<"9", "2", "2", "3", "3", "7", "2", "0", "3", "6", "8", "5", "4", "7", "7", "5", "8", "0", "8">>, <<"1", "0", "0", "0", "0", "0", "0", "0", "0", "0", "0", "0", "0", "0", "0", "0", "0", "0", "0", "0", "0", "5">>}

EnteredNumbers == EnteredNarrow \cup EnteredWide

Stdin == {EndOfFile} \cup {Entered(number) : number \in EnteredNumbers}

\* 10 INPUT A / 20 PRINT A
P_Input == Program(<<<<10, L_InputA>>, <<20, S_PRINT \o <<" ", "A">>>>>>)

InitInput ==
    \E ab \in {<<0, 0>>, <<7, 9>>} :
        Started(Assigned(Holding(Fresh(EditDirectory), P_Input), ab[1], ab[2]))

NextInput ==
    \/ \E line \in {L_InputA, L_InputB}, stdin \in Stdin : EnterDirect(line, stdin)
    \/ EnterDirect(S_RUN, EndOfFile)
    \/ \E stdin \in Stdin : RunStep(stdin)
    \/ RunExit

SpecInput == InitInput /\ [][NextInput]_vars


\* the statement line is executed with stdin holding what INPUT will read
InputStep(line, stdin) ==
    \/ EnterDirect(line, stdin)
    \/ RunStep(stdin) /\ program_storage[program_counter + 1].text = line

\* C31: INPUT v stores into v the entered decimal value reduced modulo 256 to a
\* signed byte and changes no other variable; at end of input it leaves every
\* variable as it was and the running flag is cleared
C31_Input ==
    [][\A line \in {L_InputA, L_InputB}, stdin \in Stdin :
           InputStep(line, stdin) =>
               IF stdin.eof
               THEN variables' = variables /\ ~is_running'
               ELSE variables' =
                        [variables EXCEPT ![InputVariable[line]] = LiteralByte(stdin.line)]]_vars

----------------------------------------------------------------------------
(* Specification SpecSeq: RUN of programs of three lines, each line one of     *)
(* PRINT 1, LET A = 5, REM, LIST and NEW: no GOTO, GOSUB, RETURN, IF, INPUT,   *)
(* END or STOP                                                                 *)

SeqStatements == {PrintOf(1), LetOf("A", 5), S_REM, S_LIST, S_NEW}

\* 10 <a> / 20 <b> / 30 <c>
P_Seq(a, b, c) == Program(<<<<10, a>>, <<20, b>>, <<30, c>>>>)

InitSeq ==
    \E a \in SeqStatements, b \in SeqStatements, c \in SeqStatements :
        Started(Holding(Fresh(EditDirectory), P_Seq(a, b, c)))

NextSeq ==
    \/ EnterDirect(S_RUN, EndOfFile)
    \/ RunStep(EndOfFile)
    \/ RunExit

\* run_program's loop goes on by itself until its condition fails, and then
\* returns to main
SpecSeq ==
    /\ InitSeq /\ [][NextSeq]_vars
    /\ WF_vars(RunExit)
    /\ ([]<>(~Looping) \/ []<><<RunStep(EndOfFile)>>_vars)

\* C32: a statement that neither branches nor halts advances program_counter by
\* exactly one, so that RUN of a program without GOTO, GOSUB, RETURN, IF, INPUT,
\* END, STOP or errors executes every stored line once in ascending order and
\* then terminates with the running flag cleared: RUN starts at the first line,
\* every step that reports no error goes on to the next line of the same store,
\* the loop is left without an error only past the last line, and it is left
C32_Sequential ==
    /\ [](RunStarted => program_counter = 0 /\ is_running)
    /\ [][(RunStep(EndOfFile) /\ ~AnyError') =>
              /\ program_counter' = program_counter + 1
              /\ is_running'
              /\ program_storage' = program_storage
              /\ line_count' = line_count]_vars
    /\ []((last.op = "exit" /\ last.pre.is_running) =>
              /\ last.pre.program_counter = last.pre.line_count
              /\ ~is_running)
    /\ RunStarted ~> last.op = "exit"

----------------------------------------------------------------------------
(* The program counter and the call stack during a RUN, checked under SpecMode *)

\* C33: during RUN, at the top of every execution step 0 <= program_counter <
\* line_count, after every step 0 <= program_counter <= line_count, and every
\* entry on the call stack is an index in [1, line_count]
C33_CounterInRange ==
    /\ Looping => program_counter \in 0..(line_count - 1)
    /\ last.op = "step" => program_counter \in 0..line_count
    /\ where = "run" =>
           \A i \in 0..(stack_pointer - 1) : gosub_stack[i] \in 1..line_count

----------------------------------------------------------------------------
(* The false IF, checked under SpecIf *)

\* the running flag as execute_statement leaves it for the line of the latest
\* step, before main or run_program go on
FlagKept ==
    execute_statement([EnvOf(last.pre, line_buffer(last.line)) EXCEPT !.is_running = TRUE]).is_running

\* C34: an IF whose condition is false leaves the variables, the call stack and
\* the program store unchanged and keeps the running flag set; in a RUN the next
\* line in store order follows; the tail is not executed, be it a line number
\* (stored or not), END, STOP, RETURN, PRINT, another IF or an unknown word
C34_FalseIf ==
    \A op \in RelOps, tail \in DigitTails \cup StatementTails :
        IfExecuted(op, tail, FALSE) =>
            /\ variables = last.pre.variables
            /\ gosub_stack = last.pre.gosub_stack
            /\ stack_pointer = last.pre.stack_pointer
            /\ program_storage = last.pre.program_storage
            /\ line_count = last.pre.line_count
            /\ FlagKept
            /\ last.trace = <<"IF">>
            /\ ~AnyError /\ ~AnyValue
            /\ last.op = "step" =>
                   is_running /\ program_counter = last.pre.program_counter + 1

\* in a RUN, IF A < B THEN 99 with A = 1, B = 0 and no line 99 was passed over:
\* line 30 is next
C34_PassedOver ==
    /\ Ran(IfLine(<<"<">>, FormatInt(99)))
    /\ last.pre.variables["A"] = 1
    /\ program_counter = 2
    /\ is_running

----------------------------------------------------------------------------
(* Specification SpecLet: LET A = <expression> with expressions that fail, at  *)
(* the REPL and as line 20 of a stored program                                 *)

\* "LET A = 1 / B", "LET A = 7 + *", "LET A = *", "LET A = 12X", "LET A = (1 + 2"
L_LetQuotient == <<"L", "E", "T", " ", "A", " ", "=", " ", "1", " ", "/", " ", "B">>
L_LetLateStar == <<"L", "E", "T", " ", "A", " ", "=", " ", "7", " ", "+", " ", "*">>
L_LetStar == <<"L", "E", "T", " ", "A", " ", "=", " ", "*">>
L_LetInvalid == <<"L", "E", "T", " ", "A", " ", "=", " ", "1", "2", "X">>
L_LetOpen == <<"L", "E", "T", " ", "A", " ", "=", " ", "(", "1", " ", "+", " ", "2">>

\* "LET A = B + 1", which does not fail
L_LetSum == <<"L", "E", "T", " ", "A", " ", "=", " ", "B", " ", "+", " ", "1">>

LetLines == {L_LetQuotient, L_LetLateStar, L_LetStar, L_LetInvalid, L_LetOpen, L_LetSum}

\* 10 LET A = 5 / 20 <c> / 30 PRINT A
P_Let(c) == Program(<<<<10, LetOf("A", 5)>>, <<20, c>>, <<30, S_PRINT \o <<" ", "A">>>>>>)

LetValues == {-128, -1, 5, 127}

InitLet ==
    \E c \in LetLines, a \in LetValues, b \in {0, 3} :
        Started(Assigned(Holding(Fresh(EditDirectory), P_Let(c)), a, b))

NextLet ==
    \/ \E line \in LetLines \cup {S_RUN} : EnterDirect(line, EndOfFile)
    \/ RunStep(EndOfFile)
    \/ RunExit

SpecLet == InitLet /\ [][NextLet]_vars

\* the error messages of the expression evaluator
ExpressionErrors == {"DIVISION BY ZERO", "EXPECTED NUMBER", "INVALID NUMBER", "EXPECTED ')'"}

\* C35: when the expression of LET v = expr fails (DIVISION BY ZERO, EXPECTED
\* NUMBER, INVALID NUMBER or EXPECTED ')'), nothing is assigned: v and every
\* other variable keep the values they had before the statement
C35_LetFailed ==
    \A line \in LetLines :
        (Did(line) /\ \E message \in ExpressionErrors : Reported(message)) =>
            variables = last.pre.variables

----------------------------------------------------------------------------
(* The failing GOSUB, checked under SpecRun *)

\* the latest step called GOSUB and the jump failed
GosubFailed ==
    /\ last.op \in {"direct", "step"}
    /\ \E i \in 1..Len(last.trace) : last.trace[i] = "GOSUB"
    /\ \E message \in {"LINE NOT FOUND", "EXPECTED NUMBER", "INVALID NUMBER"} : Reported(message)

\* C36: a GOSUB that fails because its target line does not exist or its argument
\* is no valid number leaves the call stack as it was before the statement, with
\* nothing pushed, and leaves program_counter unchanged
C36_FailedGosub ==
    GosubFailed =>
        /\ stack_pointer = last.pre.stack_pointer
        /\ gosub_stack = last.pre.gosub_stack
        /\ program_counter = last.pre.program_counter

----------------------------------------------------------------------------
(* LOAD, checked under SpecMode *)

\* the latest step called load_program
Loading ==
    /\ last.op \in {"direct", "step"}
    /\ \E i \in 1..Len(last.trace) : last.trace[i] = "LOAD"

\* the file could not be opened, or none was named
LoadFailed == Reported("FILENAME REQUIRED") \/ Reported("FILE NOT FOUND")

\* the records that the lines of ForeignFile make in an empty store
ForeignProgram == Program(<<<<10, S_REM>>, <<20, S_BEEP>>, <<30, S_REM>>>>)

\* C37: a LOAD that fails with FILENAME REQUIRED or FILE NOT FOUND leaves the
\* program store, the variables and the call stack unchanged; a LOAD whose file
\* opens clears store, variables and stack before the first line of the file is
\* stored: the store holds the lines of the file (of ForeignFile, or of what SAVE
\* wrote) and no line of the program before, every variable is 0 and the stack
\* is empty
C37_Load ==
    /\ (Loading /\ LoadFailed) =>
           /\ program_storage = last.pre.program_storage
           /\ line_count = last.pre.line_count
           /\ variables = last.pre.variables
           /\ gosub_stack = last.pre.gosub_stack
           /\ stack_pointer = last.pre.stack_pointer
    /\ (Loading /\ ~LoadFailed) =>
           /\ IF last.pre.files[F_g] = ForeignFile
              THEN program_storage = ForeignProgram
              ELSE listing(Globals) = last.pre.files[F_g].lines
           /\ line_count = Len(program_storage)
           /\ variables = [v \in Letters |-> 0]
           /\ stack_pointer = 0
           /\ gosub_stack = [i \in 0..(STACK_SIZE - 1) |-> 0]

\* LOAD g at the REPL replaced a program of other lines, with A set and an entry
\* on the stack
C37_LoadedOverProgram ==
    /\ Direct(Load(F_g))
    /\ Loading /\ ~LoadFailed
    /\ last.pre.program_storage # ForeignProgram
    /\ last.pre.variables["A"] # 0
    /\ variables["A"] = 0
    /\ program_storage = ForeignProgram

----------------------------------------------------------------------------
(* Specification SpecEdit: lines typed at the REPL into a store of three lines, *)
(* with the variables, the call stack and program_counter at rest and in use   *)

\* 10 REM / 20 END / 30 REM
P_Edit == Program(<<<<10, S_REM>>, <<20, S_END>>, <<30, S_REM>>>>)

\* the globals after LET A = 5, LET B = -1, GOSUB 99 (which pushed and failed) and
\* GOTO 20
InUse(e) ==
    [Assigned(e, 5, -1) EXCEPT !.gosub_stack[0] = 1,
                               !.stack_pointer = 1,
                               !.program_counter = 1]

\* new, stored and bare line numbers, before, between and after the stored ones,
\* an invalid number, and a number with a blank before it
EditLines ==
    {Typed(n, t) : n \in {5, 20, 25, 40}, t \in {S_REM, S_BEEP}}
        \cup {FormatInt(n) : n \in {5, 10, 20, 30}}
        \cup {Typed(0, S_REM), <<" ">> \o FormatInt(20)}

InitEdit ==
    \/ Started(Holding(Fresh(EditDirectory), P_Edit))
    \/ Started(InUse(Holding(Fresh(EditDirectory), P_Edit)))

NextEdit == \E line \in EditLines : EnterStoredLine(line)

SpecEdit == InitEdit /\ [][NextEdit]_vars

\* the records of a store whose line number is not n, in their order
Others(storage, n) == SelectSeq(storage, LAMBDA r : r.line_number # n)

\* C38: an editor operation on line number n (insert, replace or delete) leaves
\* the number and text of every record with another line number unchanged and
\* keeps those records in the same order; it never changes the variables, the
\* call stack, program_counter or the running flag
C38_EditorFrame ==
    last.op = "store" =>
        /\ Others(program_storage, atoi(last.line))
               = Others(last.pre.program_storage, atoi(last.line))
        /\ variables = last.pre.variables
        /\ gosub_stack = last.pre.gosub_stack
        /\ stack_pointer = last.pre.stack_pointer
        /\ program_counter = last.pre.program_counter
        /\ is_running = last.pre.is_running

\* line 25 was inserted between 20 and 30 while A was 5 and the stack held an entry
C38_InsertedBetween ==
    /\ Edited(25, S_BEEP)
    /\ 25 \notin Numbers(last.pre.program_storage)
    /\ {20, 25, 30} \subseteq Numbers(program_storage)
    /\ variables["A"] = 5
    /\ stack_pointer = 1
    /\ program_counter = 1

====
